---- MODULE Spec2Model ----
(***************************************************************************)
(* Verification model of the hybrid persistence layer of the Gantt board:  *)
(* src/services/apiService.ts and its sibling revisions                    *)
(* src/unnamed/part_000 and src/unnamed/part_002.                          *)
(*                                                                         *)
(* The variable ver selects the revision of the data-access module that is *)
(* loaded: "api" (src/services/apiService.ts), "p000" (src/unnamed/        *)
(* part_000) or "p002" (src/unnamed/part_002).                             *)
(***************************************************************************)
EXTENDS Integers, Sequences, FiniteSets, TLC

VARIABLES
    ver,                  \* which revision of the module is loaded
    GLOBAL_SUPABASE_URL,  \* compiled-in / environment target ("" when absent)
    GLOBAL_SUPABASE_KEY,  \* compiled-in / environment credential ("" when absent)
    localStorage,         \* [data |-> record under DATA_KEY, config |-> record under SUPABASE_CONFIG_KEY]
    supabase,             \* the client handle (NULL when absent)
    useSupabase,          \* the remote-mode flag
    db,                   \* the remote relational backend
    now,                  \* the value Date.now() returns
    subscriptions,        \* one entry per subscribeToChanges call: its channel and callback count
    pending,              \* the getProjects call suspended at an await (NULL when none)
    app,                  \* the state of the App component of index.tsx
    clients,              \* where each browser client stands in its checkConnectionAndSeed call
    ret                   \* the last completed facade call and its outcome

vars == <<clients, app, ver, GLOBAL_SUPABASE_URL, GLOBAL_SUPABASE_KEY, localStorage, supabase,
          useSupabase, db, now, subscriptions, pending, ret>>

\* the App component before it is mounted: no project in memory, no read in
\* flight, no unsubscribe handle held
Unmounted == [mounted |-> FALSE, projects |-> <<>>, reads |-> <<>>, handles |-> {},
              saving |-> FALSE, fresh |-> FALSE, lastWrite |-> "none"]

\* the browser clients that share the remote backend, none of them inside
\* checkConnectionAndSeed
Clients == {1, 2}
Idle == [c \in Clients |-> [pc |-> "idle", faulted |-> FALSE]]

-----------------------------------------------------------------------------
(* Bounds of the model *)

MaxClock == 2       \* Date.now() ranges over 1..MaxClock
MaxProjects == 1    \* addProject is not issued beyond this many added projects
MaxTasks == 1       \* addTask is not issued beyond this many added tasks
MaxRows == 2        \* rows per remote table in the schema-drift specification
MaxOrg == 2         \* departments / employees added in the organisation specification

-----------------------------------------------------------------------------
(* Values *)

NULL == [kind |-> "null"]
UNDEF == "<undefined>"

\* Identifiers are strings `${prefix}${n}` or `${prefix}-${n}-${suffix}`; the
\* model keeps the three parts apart.
Id(pre, n, r) == [pre |-> pre, n |-> n, r |-> r]

\* A Date value (milliseconds are counted in half days: DayLen units per day).
DayLen == 2
Date(ms) == [t |-> "Date", ms |-> ms]
\* local midnight of the day the module is loaded; it is no UTC midnight in
\* a time zone away from UTC
Today == Date(1)

addDays(date, days) == Date(date.ms + days * DayLen)

\* Date.prototype.toISOString as JSON.stringify applies it: the full instant.
toISOString(d) == [t |-> "iso", ms |-> d.ms]

\* toISOString().split('T')[0]: the UTC calendar day only.
toISODate(d) == [t |-> "ymd", day |-> d.ms \div DayLen]

\* new Date(x) for x a Date, an ISO date-time string or a bare calendar date.
NewDate(x) ==
    CASE x.t = "Date" -> x
      [] x.t = "iso"  -> Date(x.ms)
      [] x.t = "ymd"  -> Date(x.day * DayLen)

\* the palette addTask draws from (one of its six tokens: no operation reads
\* which token was drawn)
colors == {"bg-rose-500"}

-----------------------------------------------------------------------------
(* Sequence helpers (Array.prototype.find / forEach) *)

\* (variant: the first element stands in when no element has the id)
FindIdx_orFirst(s, id) ==
    IF \E i \in 1..Len(s) : s[i].id = id
    THEN CHOOSE i \in 1..Len(s) : s[i].id = id /\ \A j \in 1..(i - 1) : s[j].id # id
    ELSE IF Len(s) > 0 THEN 1 ELSE 0

\* index of the first element with this id, 0 when there is none
FindIdx(s, id) ==
    IF \E i \in 1..Len(s) : s[i].id = id
    THEN CHOOSE i \in 1..Len(s) : s[i].id = id /\ \A j \in 1..(i-1) : s[j].id # id
    ELSE 0

Range(s) == {s[i] : i \in 1..Len(s)}

-----------------------------------------------------------------------------
(* Seed data *)

Employee(n, d) == [id |-> Id("e", n, 0), name |-> "seed-employee", departmentId |-> Id("d", d, 0)]

initialEmployees ==
    << Employee(1, 1), Employee(2, 1), Employee(3, 2), Employee(4, 2), Employee(5, 3) >>

EmployeesOf(emps, deptId) == SelectSeq(emps, LAMBDA e : e.departmentId = deptId)

initialDepartments ==
    [n \in 1..3 |-> [id |-> Id("d", n, 0), name |-> "seed-department",
                     employees |-> EmployeesOf(initialEmployees, Id("d", n, 0))]]

SeedTask(n, s, e, color, emp, progress) ==
    [id |-> Id("t", n, 0), name |-> "seed-task", startDate |-> addDays(Today, s),
     endDate |-> addDays(Today, e), color |-> color, employeeId |-> Id("e", emp, 0),
     progress |-> progress, description |-> "seed"]

getInitialData ==
    [projects |->
        << [id |-> Id("p", 1, 0), name |-> "seed-project",
            tasks |-> << SeedTask(1, 1, 10, "bg-blue-500", 1, 80),
                         SeedTask(2, 2, 12, "bg-sky-500", 2, 50),
                         SeedTask(3, 13, 20, "bg-purple-500", 5, 25) >>] >>,
     departments |-> initialDepartments,
     employees |-> initialEmployees]

-----------------------------------------------------------------------------
(* Local Store Adapter: the record under DATA_KEY *)

Absent == [kind |-> "absent"]          \* getItem returns null
Malformed == [kind |-> "malformed"]    \* JSON.parse throws on it
Json(val) == [kind |-> "json", val |-> val]

\* JSON.stringify of one task: Dates become ISO strings, undefined members vanish
StringifyTask(t) ==
    LET keep == {f \in DOMAIN t : ~(f = "description" /\ t[f] = UNDEF)}
    IN  [f \in keep |-> IF f \in {"startDate", "endDate"} THEN toISOString(t[f]) ELSE t[f]]

StringifyProject(p) ==
    [f \in DOMAIN p |-> IF f = "tasks" THEN [i \in 1..Len(p.tasks) |-> StringifyTask(p.tasks[i])]
                      ELSE p[f]]

JSONstringify(data) ==
    Json([f \in DOMAIN data |->
            IF f = "projects"
            THEN [i \in 1..Len(data.projects) |-> StringifyProject(data.projects[i])]
            ELSE data[f]])

writeLocalData(data) == JSONstringify(data)

\* (variant: the dates are left as the strings JSON.parse produced)
ReviveTask_raw(t) == t

\* the forEach of readLocalData: revive dates, normalise a missing tasks array
ReviveTask(t) ==
    [f \in DOMAIN t |-> IF f \in {"startDate", "endDate"} THEN NewDate(t[f]) ELSE t[f]]

ReviveProject(p) ==
    IF "tasks" \in DOMAIN p
    THEN [p EXCEPT !.tasks = [i \in 1..Len(p.tasks) |-> ReviveTask(p.tasks[i])]]
    ELSE [f \in DOMAIN p \cup {"tasks"} |-> IF f = "tasks" THEN <<>> ELSE p[f]]

\* (variant: the seed is returned but never written back)
readLocalData_noPersist(raw) ==
    CASE raw.kind \in {"absent", "malformed"} ->
            [data |-> getInitialData, raw |-> raw]
      [] raw.kind = "json" /\ "projects" \notin DOMAIN raw.val ->
            [data |-> getInitialData, raw |-> raw]
      [] OTHER ->
            [data |-> [raw.val EXCEPT !.projects =
                          [i \in 1..Len(raw.val.projects) |-> ReviveProject(raw.val.projects[i])]],
             raw |-> raw]

\* readLocalData of apiService.ts: the data it returns and the record it leaves
readLocalData_api(raw) ==
    CASE raw.kind = "absent" ->
            [data |-> getInitialData, raw |-> writeLocalData(getInitialData)]
      [] raw.kind = "malformed" ->
            [data |-> getInitialData, raw |-> raw]
      [] raw.kind = "json" /\ "projects" \notin DOMAIN raw.val ->
            [data |-> getInitialData, raw |-> writeLocalData(getInitialData)]
      [] OTHER ->
            [data |-> [raw.val EXCEPT !.projects =
                          [i \in 1..Len(raw.val.projects) |-> ReviveProject(raw.val.projects[i])]],
             raw |-> raw]

-----------------------------------------------------------------------------
(* Remote backend: the relational store behind the supabase client *)

\* a backend error: its structured code and the columns its message names
Err(code, cols) == [kind |-> "error", code |-> code, cols |-> cols]

PermissionDenied == Err("42501", {})
NetworkFailure == Err("", {})
UndefinedTable == Err("42P01", {})
UniqueViolation == Err("23505", {})
ForeignKeyViolation == Err("23503", {})

\* what the environment can do to one request: nothing, or fail it
Faults == {NULL, PermissionDenied, NetworkFailure}

\* all orderings of a finite set
RECURSIVE Perms(_)
Perms(S) ==
    IF S = {} THEN {<<>>}
    ELSE UNION {{<<x>> \o p : p \in Perms(S \ {x})} : x \in S}

\* the orderings of the projects rows that ascend along created_at
ByCreatedAt(S) ==
    {s \in Perms(S) : \A i, j \in 1..Len(s) : i < j => s[i].created_at <= s[j].created_at}

\* .from('projects').select('*').order('created_at'): the possible responses
SelectProjectsByCreatedAt(fault) ==
    IF fault # NULL THEN {[error |-> fault, data |-> <<>>]}
    ELSE IF ~db.provisioned THEN {[error |-> UndefinedTable, data |-> <<>>]}
    ELSE {[error |-> NULL, data |-> s] : s \in ByCreatedAt(db.projects)}

\* .from('tasks').select('*'): no ORDER BY, so any order
SelectTasks(fault) ==
    IF fault # NULL THEN {[error |-> fault, data |-> <<>>]}
    ELSE IF ~db.provisioned THEN {[error |-> UndefinedTable, data |-> <<>>]}
    ELSE {[error |-> NULL, data |-> s] : s \in Perms(db.tasks)}

\* .from('projects').insert(row): created_at defaults to now()
InsertProject(fault, row) ==
    IF fault # NULL THEN [error |-> fault, db |-> db]
    ELSE IF ~db.provisioned THEN [error |-> UndefinedTable, db |-> db]
    ELSE IF \E r \in db.projects : r.id = row.id THEN [error |-> UniqueViolation, db |-> db]
    ELSE [error |-> NULL,
          db |-> [db EXCEPT !.projects = @ \cup {row @@ [created_at |-> now]}]]

\* .from('tasks').insert(row): project_id references projects(id)
InsertTask(fault, row) ==
    IF fault # NULL THEN [error |-> fault, db |-> db]
    ELSE IF ~db.provisioned THEN [error |-> UndefinedTable, db |-> db]
    ELSE IF \E r \in db.tasks : r.id = row.id THEN [error |-> UniqueViolation, db |-> db]
    ELSE IF ~\E r \in db.projects : r.id = row.project_id
         THEN [error |-> ForeignKeyViolation, db |-> db]
    ELSE [error |-> NULL, db |-> [db EXCEPT !.tasks = @ \cup {row}]]

\* (variant: a foreign key without the cascade rule)
NoCascadeTasks(tasks, projectId) == tasks

\* the tasks that go with a deleted project: project_id ... on delete cascade
CascadeTasks(tasks, projectId) == {t \in tasks : t.project_id # projectId}

\* .from('projects').delete().eq('id', projectId)
DeleteProjectRow(fault, projectId) ==
    IF fault # NULL THEN [error |-> fault, db |-> db]
    ELSE IF ~db.provisioned THEN [error |-> UndefinedTable, db |-> db]
    ELSE [error |-> NULL,
          db |-> [db EXCEPT !.projects = {r \in @ : r.id # projectId},
                            !.tasks = CascadeTasks(@, projectId)]]

\* .from('tasks').update(updates).eq('id', taskId)
UpdateTaskRow(fault, taskId, updates) ==
    IF fault # NULL THEN [error |-> fault, db |-> db]
    ELSE IF ~db.provisioned THEN [error |-> UndefinedTable, db |-> db]
    ELSE [error |-> NULL,
          db |-> [db EXCEPT !.tasks = {IF r.id = taskId THEN updates @@ r ELSE r : r \in @}]]

\* .from('projects').update({ name }).eq('id', projectId)
UpdateProjectRow(fault, projectId, projectName) ==
    IF fault # NULL THEN [error |-> fault, db |-> db]
    ELSE IF ~db.provisioned THEN [error |-> UndefinedTable, db |-> db]
    ELSE [error |-> NULL,
          db |-> [db EXCEPT !.projects =
                    {IF r.id = projectId THEN [r EXCEPT !.name = projectName] ELSE r : r \in @}]]

\* .from('tasks').delete().eq('id', taskId)
DeleteTaskRow(fault, taskId) ==
    IF fault # NULL THEN [error |-> fault, db |-> db]
    ELSE IF ~db.provisioned THEN [error |-> UndefinedTable, db |-> db]
    ELSE [error |-> NULL, db |-> [db EXCEPT !.tasks = {r \in @ : r.id # taskId}]]

-----------------------------------------------------------------------------
(* Connection bootstrap and mode selector *)

\* the url / key values a caller can pass; createClient rejects "not-a-url"
Urls == {"", "https://u", "not-a-url"}
Keys == {"", "k"}

Client(url, key) == [kind |-> "client", url |-> url, key |-> key]

\* createClient(url, key) throws on a url that is no http(s) address
createClientThrows(url, key) == url = "not-a-url"

\* initSupabase picks the compiled-in value first (apiService.ts, part_000);
\* part_002 picks the argument first
targetUrl(url) ==
    IF ver = "p002" THEN (IF url # "" THEN url ELSE GLOBAL_SUPABASE_URL)
    ELSE (IF GLOBAL_SUPABASE_URL # "" THEN GLOBAL_SUPABASE_URL ELSE url)

targetKey(key) ==
    IF ver = "p002" THEN (IF key # "" THEN key ELSE GLOBAL_SUPABASE_KEY)
    ELSE (IF GLOBAL_SUPABASE_KEY # "" THEN GLOBAL_SUPABASE_KEY ELSE key)

\* (variant: empty inputs clear the handle but leave the flag as it was)
initSupabaseOn_flagKept(conn, url, key) ==
    IF targetUrl(url) # "" /\ targetKey(key) # "" /\ ~createClientThrows(targetUrl(url), targetKey(key))
    THEN [supabase |-> Client(targetUrl(url), targetKey(key)), useSupabase |-> TRUE,
          config |-> IF GLOBAL_SUPABASE_URL = ""
                     THEN Json([url |-> targetUrl(url), key |-> targetKey(key)])
                     ELSE conn.config]
    ELSE IF targetUrl(url) # "" /\ targetKey(key) # ""
    THEN [conn EXCEPT !.useSupabase = FALSE]
    ELSE [supabase |-> NULL, useSupabase |-> conn.useSupabase,
          config |-> IF GLOBAL_SUPABASE_URL = "" THEN Absent ELSE conn.config]

\* initSupabase as a function of the connection state
\* conn = [supabase, useSupabase, config]
initSupabaseOn(conn, url, key) ==
    LET tUrl == targetUrl(url)
        tKey == targetKey(key)
    IN  IF tUrl # "" /\ tKey # ""
        THEN IF createClientThrows(tUrl, tKey)
             THEN [conn EXCEPT !.useSupabase = FALSE]
             ELSE [supabase |-> Client(tUrl, tKey),
                   useSupabase |-> TRUE,
                   config |-> IF GLOBAL_SUPABASE_URL = ""
                              THEN Json([url |-> tUrl, key |-> tKey])
                              ELSE conn.config]
        ELSE [supabase |-> NULL,
              useSupabase |-> FALSE,
              config |-> IF GLOBAL_SUPABASE_URL = "" THEN Absent ELSE conn.config]

\* getSupabaseConfig: the compiled-in pair, else the persisted record
getSupabaseConfig(config) ==
    IF GLOBAL_SUPABASE_URL # "" /\ GLOBAL_SUPABASE_KEY # ""
    THEN [url |-> GLOBAL_SUPABASE_URL, key |-> GLOBAL_SUPABASE_KEY]
    ELSE IF config.kind = "json" THEN config.val ELSE NULL

\* module load: auto-init when credentials exist
LoadModule(config) ==
    LET conn0 == [supabase |-> NULL, useSupabase |-> FALSE, config |-> config]
        storedConfig == getSupabaseConfig(config)
    IN  IF storedConfig # NULL
        THEN initSupabaseOn(conn0, storedConfig.url, storedConfig.key)
        ELSE conn0

isSupabaseEnabled == useSupabase

\* the test `useSupabase && supabase` every facade operation starts with
RemoteActive == useSupabase /\ supabase # NULL

\* initSupabase assigns the module-level handle (a new client, or null) in
\* every branch but the catch block
assignsHandle(url, key) ==
    ~(/\ targetUrl(url) # "" /\ targetKey(key) # ""
      /\ createClientThrows(targetUrl(url), targetKey(key)))

\* Clients are objects: a client constructed later is another object even
\* for the same target.  Whoever holds a reference to the client that was
\* the module-level handle (a channel, a suspended call) records in the
\* field attached whether the handle still is that object.
DetachChannels(subs) ==
    [i \in 1..Len(subs) |->
        IF subs[i].channel = NULL THEN subs[i]
        ELSE [subs[i] EXCEPT !.channel.attached = FALSE]]

DetachCall(call) ==
    IF call = NULL THEN NULL ELSE [call EXCEPT !.attached = FALSE]

\* the assignments of initSupabase to the module state
initSupabaseState(url, key) ==
    LET conn == initSupabaseOn([supabase |-> supabase, useSupabase |-> useSupabase,
                                config |-> localStorage.config], url, key)
    IN  /\ supabase' = conn.supabase
        /\ useSupabase' = conn.useSupabase
        /\ localStorage' = [localStorage EXCEPT !.config = conn.config]
        /\ subscriptions' = IF assignsHandle(url, key)
                            THEN DetachChannels(subscriptions) ELSE subscriptions
        /\ pending' = IF assignsHandle(url, key) THEN DetachCall(pending) ELSE pending
        /\ UNCHANGED <<clients, ver, GLOBAL_SUPABASE_URL, GLOBAL_SUPABASE_KEY, db, now>>

initSupabase(url, key) ==
    /\ initSupabaseState(url, key)
    /\ UNCHANGED app
    /\ ret' = [op |-> "initSupabase", url |-> url, key |-> key,
               wasEnabled |-> isSupabaseEnabled]

\* initSupabaseFromUrl: sbUrl / sbKey are the query parameters ("" when the
\* parameter is missing)
initSupabaseFromUrl(sbUrl, sbKey) ==
    IF sbUrl # "" /\ sbKey # ""
    THEN /\ initSupabaseState(sbUrl, sbKey)
         /\ UNCHANGED app
         /\ ret' = [op |-> "initSupabaseFromUrl", val |-> TRUE, url |-> sbUrl, key |-> sbKey]
    ELSE /\ ret' = [op |-> "initSupabaseFromUrl", val |-> FALSE, url |-> sbUrl, key |-> sbKey]
         /\ UNCHANGED <<clients, app, ver, GLOBAL_SUPABASE_URL, GLOBAL_SUPABASE_KEY, localStorage, supabase,
                        useSupabase, db, now, subscriptions, pending>>

-----------------------------------------------------------------------------
(* Facade: projects and tasks (apiService.ts; part_000 has the same text) *)

\* getInitialData of part_002: one sample project, no organisation
getInitialData_p002 ==
    [projects |->
        << [id |-> Id("p", 1, 0), name |-> "sample-project",
            tasks |-> << [id |-> Id("t", 1, 0), name |-> "sample-task",
                          startDate |-> addDays(Today, 1), endDate |-> addDays(Today, 10),
                          color |-> "bg-blue-500", employeeId |-> Id("", 0, 0),
                          progress |-> 0] >>] >>,
     departments |-> <<>>,
     employees |-> <<>>]

\* if (!parsedData.departments) parsedData.departments = getInitialData().departments
\* and the same for employees
OrgDefaults(data) ==
    [f \in DOMAIN data \cup {"departments", "employees"} |->
        IF f \in DOMAIN data THEN data[f] ELSE getInitialData[f]]

\* readLocalData of part_000: as apiService.ts, and a record written before
\* the organisation existed gets the seed departments / employees
readLocalData_p000(raw) ==
    [readLocalData_api(raw) EXCEPT !.data = OrgDefaults(@)]

\* p.tasks?.forEach of part_002: dates revived, a missing tasks array left missing
ReviveProject_p002(p) ==
    IF "tasks" \in DOMAIN p
    THEN [p EXCEPT !.tasks = [i \in 1..Len(p.tasks) |-> ReviveTask(p.tasks[i])]]
    ELSE p

\* readLocalData of part_002: nothing is validated and nothing is written
readLocalData_p002(raw) ==
    CASE raw.kind \in {"absent", "malformed"} ->
            [data |-> getInitialData_p002, raw |-> raw]
      [] raw.kind = "json" /\ "projects" \notin DOMAIN raw.val ->
            [data |-> raw.val, raw |-> raw]
      [] OTHER ->
            [data |-> [raw.val EXCEPT !.projects =
                          [i \in 1..Len(raw.val.projects) |->
                              ReviveProject_p002(raw.val.projects[i])]],
             raw |-> raw]

\* (variant: the write works from the record as it was at load, as a call
\* suspended between its read and its write would)
readLocalData_stale(raw) == readLocalData_api(Absent)

readLocalData(raw) ==
    CASE ver = "api" -> readLocalData_api(raw)
      [] ver = "p000" -> readLocalData_p000(raw)
      [] ver = "p002" -> readLocalData_p002(raw)

DBNULL == "<null>"

\* a tasks row as the application's Task
MapTaskRow(t) ==
    [id |-> t.id, name |-> t.name, startDate |-> NewDate(t.start_date),
     endDate |-> NewDate(t.end_date), color |-> t.color, employeeId |-> t.employee_id,
     progress |-> t.progress, description |-> t.description]

\* the client-side join of getProjects
JoinTasks(tasksData, projectId) ==
    LET mine == SelectSeq(tasksData, LAMBDA t : t.project_id = projectId)
    IN  [i \in 1..Len(mine) |-> MapTaskRow(mine[i])]

JoinProjects(projectsData, tasksData) ==
    [i \in 1..Len(projectsData) |->
        [id |-> projectsData[i].id, name |-> projectsData[i].name,
         tasks |-> JoinTasks(tasksData, projectsData[i].id)]]

Ok(op, val) == [op |-> op, status |-> "ok", val |-> val, remote |-> RemoteActive]
Rejected(op, error) == [op |-> op, status |-> "rejected", error |-> error, remote |-> RemoteActive]

\* the mark of a call that went through readLocalData / writeLocalData
LocalAccess == [local |-> TRUE]

\* one request to the remote backend, with the error of its response
Request(table, verb, error) == [table |-> table, verb |-> verb, error |-> error]

\* (variant: the error of the response is dropped and the entity returned)
awaitRequest_resolved(op, request, val) ==
    Ok(op, val) @@ [requests |-> <<request>>]

\* const { error } = await supabase.from(..)...; if (error) throw error;
\* return <entity>: the outcome of a call that issued the one request
awaitRequest(op, request, val) ==
    (IF request.error # NULL THEN Rejected(op, request.error) ELSE Ok(op, val))
    @@ [requests |-> <<request>>]

Frame == UNCHANGED <<clients, app, ver, GLOBAL_SUPABASE_URL, GLOBAL_SUPABASE_KEY, supabase, useSupabase, now,
                     subscriptions, pending>>

getProjects ==
    /\ Frame
    /\ IF RemoteActive
       THEN /\ UNCHANGED <<localStorage, db>>
            /\ \E f1, f2 \in Faults :
               \E p \in SelectProjectsByCreatedAt(f1) :
               \E t \in SelectTasks(f2) :
                  ret' = IF p.error # NULL
                         THEN Rejected("getProjects", p.error)
                                @@ [requests |-> <<Request("projects", "select", p.error)>>]
                         ELSE (IF t.error # NULL THEN Rejected("getProjects", t.error)
                               ELSE Ok("getProjects", JoinProjects(p.data, t.data)))
                                @@ [requests |-> <<Request("projects", "select", NULL),
                                                   Request("tasks", "select", t.error)>>]
       ELSE LET r == readLocalData(localStorage.data)
            IN  /\ localStorage' = [localStorage EXCEPT !.data = r.raw]
                /\ ret' = LocalAccess @@ Ok("getProjects", r.data.projects)
                /\ UNCHANGED db

addProject(projectName) ==
    LET newId == Id("project", now, 0)
        newProject == [id |-> newId, name |-> projectName, tasks |-> <<>>]
    IN  /\ Frame
        /\ IF RemoteActive
           THEN \E f \in Faults :
                LET r == InsertProject(f, [id |-> newId, name |-> projectName])
                IN  /\ db' = r.db
                    /\ ret' = awaitRequest("addProject",
                                  Request("projects", "insert", r.error), newProject)
                    /\ UNCHANGED localStorage
           ELSE LET data == readLocalData(localStorage.data).data
                IN  /\ localStorage' = [localStorage EXCEPT !.data =
                            writeLocalData([data EXCEPT !.projects = Append(@, newProject)])]
                    /\ ret' = LocalAccess @@ Ok("addProject", newProject)
                    /\ UNCHANGED db

updateProject(projectId, projectName) ==
    /\ Frame
    /\ IF RemoteActive
       THEN \E f \in Faults :
            LET r == UpdateProjectRow(f, projectId, projectName)
            IN  /\ db' = r.db
                /\ ret' = awaitRequest("updateProject",
                              Request("projects", "update", r.error),
                              [id |-> projectId, name |-> projectName, tasks |-> <<>>])
                          @@ [id |-> projectId]
                /\ UNCHANGED localStorage
       ELSE LET r == readLocalData(localStorage.data)
                pi == FindIdx(r.data.projects, projectId)
            IN  /\ UNCHANGED db
                /\ IF pi # 0
                   THEN /\ localStorage' = [localStorage EXCEPT !.data =
                              writeLocalData([r.data EXCEPT !.projects[pi].name = projectName])]
                        /\ ret' = LocalAccess @@ Ok("updateProject",
                                     [r.data.projects[pi] EXCEPT !.name = projectName])
                                  @@ [id |-> projectId]
                   ELSE /\ localStorage' = [localStorage EXCEPT !.data = r.raw]
                        /\ ret' = LocalAccess @@ Rejected("updateProject", "Project not found")
                                  @@ [id |-> projectId]

\* data.projects.filter(p => p.id !== projectId)
RemoveProject(projects, projectId) == SelectSeq(projects, LAMBDA p : p.id # projectId)

\* the tasks the active backend holds under a project (for the record in ret)
OwnedTasks(data, projectId) ==
    IF RemoteActive THEN Cardinality({t \in db.tasks : t.project_id = projectId})
    ELSE LET pi == FindIdx(data.projects, projectId)
         IN  IF pi = 0 THEN 0 ELSE Len(data.projects[pi].tasks)

deleteProject(projectId) ==
    /\ Frame
    /\ IF RemoteActive
       THEN \E f \in Faults :
            LET r == DeleteProjectRow(f, projectId)
                args == [id |-> projectId, owned |-> OwnedTasks(<<>>, projectId)]
            IN  /\ db' = r.db
                /\ ret' = awaitRequest("deleteProject",
                              Request("projects", "delete", r.error), [id |-> projectId])
                          @@ args
                /\ UNCHANGED localStorage
       ELSE LET data == readLocalData(localStorage.data).data
                args == [id |-> projectId, owned |-> OwnedTasks(data, projectId)]
            IN  /\ localStorage' = [localStorage EXCEPT !.data =
                        writeLocalData([data EXCEPT !.projects = RemoveProject(@, projectId)])]
                /\ ret' = LocalAccess @@ Ok("deleteProject", [id |-> projectId]) @@ args
                /\ UNCHANGED db

\* the task data a caller passes to addTask
TaskInputs ==
    { [name |-> "A", startDate |-> Date(3), endDate |-> Date(5),
       employeeId |-> Id("e", 1, 0)] }

\* the random suffix of a task identifier
Suffixes == {1, 2}

insertTaskRow(projectId, newTask) ==
    [id |-> newTask.id, name |-> newTask.name,
     start_date |-> toISODate(newTask.startDate),
     end_date |-> toISODate(newTask.endDate),
     color |-> newTask.color, employee_id |-> newTask.employeeId, progress |-> 0,
     description |-> IF "description" \in DOMAIN newTask /\ newTask.description # UNDEF
                     THEN newTask.description ELSE DBNULL,
     project_id |-> projectId]

addTask(projectId, taskData, randomColor, suffix) ==
    LET newTask == [color |-> randomColor, progress |-> 0] @@ taskData
                       @@ [id |-> Id("task", now, suffix)]
    IN  /\ Frame
        /\ IF RemoteActive
           THEN \E f \in Faults :
                LET r == InsertTask(f, insertTaskRow(projectId, newTask))
                IN  /\ db' = r.db
                    /\ ret' = awaitRequest("addTask",
                                  Request("tasks", "insert", r.error), newTask)
                    /\ UNCHANGED localStorage
           ELSE LET r == readLocalData(localStorage.data)
                    pi == FindIdx(r.data.projects, projectId)
                IN  /\ UNCHANGED db
                    /\ IF pi # 0
                       THEN /\ localStorage' = [localStorage EXCEPT !.data =
                                  writeLocalData([r.data EXCEPT !.projects[pi].tasks =
                                                      Append(@, newTask)])]
                            /\ ret' = LocalAccess @@ Ok("addTask", newTask) @@ [projectId |-> projectId]
                       ELSE /\ localStorage' = [localStorage EXCEPT !.data = r.raw]
                            /\ ret' = LocalAccess @@ Rejected("addTask", "Project not found in local storage")
                                      @@ [projectId |-> projectId]

\* the patches a caller passes to updateTask
TaskPatches ==
    { [progress |-> 0], [progress |-> 42],
      [name |-> "B", endDate |-> Date(7), description |-> ""] }

\* (variant: name is sent whether or not the patch carries it)
buildUpdates_nameAlways(taskUpdate) ==
    [name |-> IF "name" \in DOMAIN taskUpdate THEN taskUpdate.name ELSE DBNULL]
    @@ [c \in (DOMAIN taskUpdate) \cap {"progress", "description"} |-> taskUpdate[c]]

\* the partial update updateTask sends in remote mode
buildUpdates(taskUpdate) ==
    LET has(f) == f \in DOMAIN taskUpdate
        sent == {f \in DOMAIN taskUpdate :
                    \/ f = "name" /\ taskUpdate.name # ""
                    \/ f = "startDate"
                    \/ f = "endDate"
                    \/ f = "employeeId" /\ taskUpdate.employeeId # Id("", 0, 0)
                    \/ f = "progress"
                    \/ f = "description" /\ taskUpdate.description # UNDEF}
        column(f) == CASE f = "startDate" -> "start_date"
                       [] f = "endDate" -> "end_date"
                       [] f = "employeeId" -> "employee_id"
                       [] OTHER -> f
        field(c) == CHOOSE f \in sent : column(f) = c
    IN  [c \in {column(f) : f \in sent} |->
            IF c \in {"start_date", "end_date"} THEN toISODate(taskUpdate[field(c)])
            ELSE taskUpdate[field(c)]]

\* Object.assign(task, taskUpdate)
ObjectAssign(task, taskUpdate) == taskUpdate @@ task

updateTask(projectId, taskId, taskUpdate) ==
    /\ Frame
    /\ IF RemoteActive
       THEN \E f \in Faults :
            LET r == UpdateTaskRow(f, taskId, buildUpdates(taskUpdate))
                args == [projectId |-> projectId, taskId |-> taskId, patch |-> taskUpdate,
                         sent |-> DOMAIN buildUpdates(taskUpdate)]
            IN  /\ db' = r.db
                /\ ret' = LET done == awaitRequest("updateTask",
                                          Request("tasks", "update", r.error),
                                          taskUpdate @@ [id |-> taskId])
                          IN  IF r.error # NULL THEN done ELSE done @@ args
                /\ UNCHANGED localStorage
       ELSE LET r == readLocalData(localStorage.data)
                pi == FindIdx(r.data.projects, projectId)
                ti == IF pi = 0 THEN 0 ELSE FindIdx(r.data.projects[pi].tasks, taskId)
                args == [projectId |-> projectId, taskId |-> taskId, patch |-> taskUpdate]
            IN  /\ UNCHANGED db
                /\ IF ti # 0
                   THEN LET task == ObjectAssign(r.data.projects[pi].tasks[ti], taskUpdate)
                        IN  /\ localStorage' = [localStorage EXCEPT !.data =
                                  writeLocalData([r.data EXCEPT !.projects[pi].tasks[ti] = task])]
                            /\ ret' = LocalAccess @@ Ok("updateTask", task) @@ args
                   ELSE /\ localStorage' = [localStorage EXCEPT !.data = r.raw]
                        /\ ret' = LocalAccess @@ Rejected("updateTask", "Task not found") @@ args

\* deleteTask of apiService.ts: the local branch writes only when the project
\* is found, and the call resolves with the project id either way
deleteTask(projectId, taskId) ==
    LET args == [projectId |-> projectId, taskId |-> taskId]
    IN  /\ Frame
        /\ IF RemoteActive
           THEN \E f \in Faults :
                LET r == DeleteTaskRow(f, taskId)
                IN  /\ db' = r.db
                    /\ ret' = awaitRequest("deleteTask",
                                  Request("tasks", "delete", r.error), [id |-> projectId])
                              @@ args
                    /\ UNCHANGED localStorage
           ELSE LET r == readLocalData(localStorage.data)
                    pi == FindIdx(r.data.projects, projectId)
                IN  /\ UNCHANGED db
                    /\ ret' = LocalAccess @@ Ok("deleteTask", [id |-> projectId]) @@ args
                    /\ localStorage' = [localStorage EXCEPT !.data =
                          IF pi = 0 THEN r.raw
                          ELSE writeLocalData([r.data EXCEPT !.projects[pi].tasks =
                                   SelectSeq(@, LAMBDA t : t.id # taskId)])]

-----------------------------------------------------------------------------
(* Facade: departments and employees (part_000, part_002) *)

\* the TypeError of reading a property of undefined
TypeError == [kind |-> "TypeError"]

\* .from(table).insert(row) on departments / employees
InsertOrgRow(fault, table, row) ==
    IF fault # NULL THEN [error |-> fault, db |-> db]
    ELSE IF ~db.provisioned THEN [error |-> UndefinedTable, db |-> db]
    ELSE IF \E r \in db[table] : r.id = row.id THEN [error |-> UniqueViolation, db |-> db]
    ELSE [error |-> NULL, db |-> [db EXCEPT ![table] = @ \cup {row}]]

\* .from(table).delete().eq('id', id) on departments / employees
DeleteOrgRow(fault, table, id) ==
    IF fault # NULL THEN [error |-> fault, db |-> db]
    ELSE IF ~db.provisioned THEN [error |-> UndefinedTable, db |-> db]
    ELSE [error |-> NULL, db |-> [db EXCEPT ![table] = {r \in @ : r.id # id}]]

\* .from(table).select('*').order('name'): any order the names allow
SelectOrgRows(fault, table) ==
    IF fault # NULL THEN {[error |-> fault, data |-> <<>>]}
    ELSE IF ~db.provisioned THEN {[error |-> UndefinedTable, data |-> <<>>]}
    ELSE {[error |-> NULL, data |-> s] : s \in Perms(db[table])}

MapEmployeeRow(e) == [id |-> e.id, name |-> e.name, departmentId |-> e.department_id]

\* the client-side join of getDepartments
JoinDepartments(depts, emps) ==
    [i \in 1..Len(depts) |->
        [id |-> depts[i].id, name |-> depts[i].name,
         employees |-> LET mine == SelectSeq(emps, LAMBDA e : e.department_id = depts[i].id)
                       IN  [j \in 1..Len(mine) |-> MapEmployeeRow(mine[j])]]]

\* the end of a local change: the changed record is written, unless the record
\* read lacks a list the change starts from
LocalOrgChange(op, r, needs, newData, result, args) ==
    /\ UNCHANGED db
    /\ IF needs \subseteq DOMAIN r.data
       THEN /\ localStorage' = [localStorage EXCEPT !.data = writeLocalData(newData)]
            /\ ret' = Ok(op, result) @@ args
       ELSE /\ localStorage' = [localStorage EXCEPT !.data = r.raw]
            /\ ret' = Rejected(op, TypeError) @@ args

getDepartments ==
    /\ Frame
    /\ IF RemoteActive
       THEN /\ UNCHANGED <<localStorage, db>>
            /\ \E f1, f2 \in Faults :
               \E d \in SelectOrgRows(f1, "departments") :
               \E e \in SelectOrgRows(f2, "employees") :
                  ret' = IF d.error # NULL THEN Rejected("getDepartments", d.error)
                         ELSE IF e.error # NULL THEN Rejected("getDepartments", e.error)
                         ELSE Ok("getDepartments", JoinDepartments(d.data, e.data))
       ELSE LET r == readLocalData(localStorage.data)
            IN  /\ localStorage' = [localStorage EXCEPT !.data = r.raw]
                /\ ret' = Ok("getDepartments",
                             IF "departments" \in DOMAIN r.data
                             THEN r.data.departments ELSE UNDEF)
                /\ UNCHANGED db

getEmployees ==
    /\ Frame
    /\ IF RemoteActive
       THEN /\ UNCHANGED <<localStorage, db>>
            /\ \E f \in Faults :
               \E e \in SelectOrgRows(f, "employees") :
                  ret' = IF e.error # NULL THEN Rejected("getEmployees", e.error)
                         ELSE Ok("getEmployees",
                                 [i \in 1..Len(e.data) |-> MapEmployeeRow(e.data[i])])
       ELSE LET r == readLocalData(localStorage.data)
            IN  /\ localStorage' = [localStorage EXCEPT !.data = r.raw]
                /\ ret' = Ok("getEmployees",
                             IF "employees" \in DOMAIN r.data
                             THEN r.data.employees ELSE UNDEF)
                /\ UNCHANGED db

addDepartment(name) ==
    LET newId == Id("dept", now, 0)
        newDept == [id |-> newId, name |-> name, employees |-> <<>>]
    IN  /\ Frame
        /\ IF RemoteActive
           THEN \E f \in Faults :
                LET r == InsertOrgRow(f, "departments", [id |-> newId, name |-> name])
                IN  /\ db' = r.db
                    /\ ret' = IF r.error # NULL THEN Rejected("addDepartment", r.error)
                              ELSE Ok("addDepartment", newDept)
                    /\ UNCHANGED localStorage
           ELSE LET r == readLocalData(localStorage.data)
                    needs == {"departments"}
                IN  LocalOrgChange("addDepartment", r, needs,
                        IF needs \subseteq DOMAIN r.data
                        THEN [r.data EXCEPT !.departments = Append(@, newDept)]
                        ELSE r.data,
                        newDept, [name |-> name])

\* the local branch of deleteDepartment: part_000 filters the employees of the
\* department out as well, part_002 filters the departments only
deleteDepartmentIn(data, id) ==
    IF ver = "p002"
    THEN [data EXCEPT !.departments = SelectSeq(@, LAMBDA d : d.id # id)]
    ELSE [data EXCEPT !.departments = SelectSeq(@, LAMBDA d : d.id # id),
                      !.employees = SelectSeq(@, LAMBDA e : e.departmentId # id)]

deleteDepartment(id) ==
    /\ Frame
    /\ IF RemoteActive
       THEN \E f \in Faults :
            LET r == DeleteOrgRow(f, "departments", id)
            IN  /\ db' = r.db
                /\ ret' = (IF r.error # NULL THEN Rejected("deleteDepartment", r.error)
                           ELSE Ok("deleteDepartment", UNDEF)) @@ [id |-> id]
                /\ UNCHANGED localStorage
       ELSE LET r == readLocalData(localStorage.data)
                needs == IF ver = "p002" THEN {"departments"}
                         ELSE {"departments", "employees"}
            IN  LocalOrgChange("deleteDepartment", r, needs,
                    IF needs \subseteq DOMAIN r.data
                    THEN deleteDepartmentIn(r.data, id) ELSE r.data,
                    UNDEF, [id |-> id])

\* the local branch of addEmployee: part_000 also pushes the employee onto the
\* first department with the given id, part_002 does not
addEmployeeIn(data, newEmp) ==
    LET i == IF ver = "p002" THEN 0 ELSE FindIdx(data.departments, newEmp.departmentId)
        pushed == [data EXCEPT !.employees = Append(@, newEmp)]
    IN  IF i = 0 THEN pushed
        ELSE [pushed EXCEPT !.departments[i].employees = Append(@, newEmp)]

addEmployee(name, departmentId) ==
    LET newId == Id("emp", now, 0)
        newEmp == [id |-> newId, name |-> name, departmentId |-> departmentId]
    IN  /\ Frame
        /\ IF RemoteActive
           THEN \E f \in Faults :
                LET r == InsertOrgRow(f, "employees",
                             [id |-> newId, name |-> name, department_id |-> departmentId])
                IN  /\ db' = r.db
                    /\ ret' = IF r.error # NULL THEN Rejected("addEmployee", r.error)
                              ELSE Ok("addEmployee", newEmp)
                    /\ UNCHANGED localStorage
           ELSE LET r == readLocalData(localStorage.data)
                    needs == IF ver = "p002" THEN {"employees"}
                             ELSE {"employees", "departments"}
                IN  LocalOrgChange("addEmployee", r, needs,
                        IF needs \subseteq DOMAIN r.data
                        THEN addEmployeeIn(r.data, newEmp) ELSE r.data,
                        newEmp, [name |-> name])

\* the local branch of deleteEmployee: part_000 also filters every
\* department's own list, part_002 does not
deleteEmployeeIn(data, id) ==
    LET dropped == [data EXCEPT !.employees = SelectSeq(@, LAMBDA e : e.id # id)]
    IN  IF ver = "p002" THEN dropped
        ELSE [dropped EXCEPT !.departments =
                [i \in 1..Len(@) |->
                    [@[i] EXCEPT !.employees = SelectSeq(@, LAMBDA e : e.id # id)]]]

deleteEmployee(id) ==
    /\ Frame
    /\ IF RemoteActive
       THEN \E f \in Faults :
            LET r == DeleteOrgRow(f, "employees", id)
            IN  /\ db' = r.db
                /\ ret' = (IF r.error # NULL THEN Rejected("deleteEmployee", r.error)
                           ELSE Ok("deleteEmployee", UNDEF)) @@ [id |-> id]
                /\ UNCHANGED localStorage
       ELSE LET r == readLocalData(localStorage.data)
                needs == IF ver = "p002" THEN {"employees"}
                         ELSE {"employees", "departments"}
            IN  LocalOrgChange("deleteEmployee", r, needs,
                    IF needs \subseteq DOMAIN r.data
                    THEN deleteEmployeeIn(r.data, id) ELSE r.data,
                    UNDEF, [id |-> id])

-----------------------------------------------------------------------------
(* Facade under schema drift: ordered reads, reorder writes and the        *)
(* connection probe (part_002; checkConnectionAndSeed also apiService.ts)  *)

\* what the backend answers when a query names a column a table lacks
UndefinedColumn(column) == Err("42703", {column})

\* what the REST layer answers when a written row names such a column
UnknownColumn(column) == Err("PGRST204", {column})

\* the columns of a table that an ORDER BY or an upsert can name
ColumnsOf(table) ==
    {"id"} \cup (IF table = "projects" THEN db.projCols ELSE db.taskCols)

\* text order of identifiers: a seed one ("p1", "t1") before a generated one
IdLess(a, b) ==
    LET rank(id) == IF id.pre \in {"p", "t", "e", "d", ""} THEN 0 ELSE 1
    IN  \/ rank(a) < rank(b)
        \/ rank(a) = rank(b) /\ a.n < b.n
        \/ rank(a) = rank(b) /\ a.n = b.n /\ a.r < b.r

ColLess(a, b, column) ==
    IF column = "id" THEN IdLess(a.id, b.id) ELSE a[column] < b[column]

\* a may precede b under ORDER BY order[1], order[2]
RowLeq(a, b, order) ==
    \/ ColLess(a, b, order[1])
    \/ /\ ~ColLess(b, a, order[1])
       /\ (Len(order) = 1 \/ ~ColLess(b, a, order[2]))

\* .from(table).select('*').order(order[1]).order(order[2]): the possible
\* responses
SelectOrdered(fault, table, order) ==
    LET missing == {i \in 1..Len(order) : order[i] \notin ColumnsOf(table)}
    IN  IF fault # NULL THEN {[error |-> fault, data |-> <<>>]}
        ELSE IF ~db.provisioned THEN {[error |-> UndefinedTable, data |-> <<>>]}
        ELSE IF missing # {}
        THEN {[error |-> UndefinedColumn(order[CHOOSE i \in missing : \A j \in missing : i <= j]),
               data |-> <<>>]}
        ELSE {[error |-> NULL, data |-> s] :
                s \in {p \in Perms(db[table]) :
                         \A i, j \in 1..Len(p) : i < j => RowLeq(p[i], p[j], order)}}

\* one row of an upsert: the stored row with the id takes the given columns,
\* or the row is inserted
UpsertRow(rows, table, row) ==
    IF \E r \in rows : r.id = row.id
    THEN {IF r.id = row.id THEN row @@ r ELSE r : r \in rows}
    ELSE rows \cup {IF table = "projects" THEN row @@ [created_at |-> now] ELSE row}

RECURSIVE UpsertRows(_, _, _)
UpsertRows(rows, table, updates) ==
    IF updates = <<>> THEN rows
    ELSE UpsertRows(UpsertRow(rows, table, Head(updates)), table, Tail(updates))

\* .from(table).upsert(updates, { onConflict: 'id' })
Upsert(fault, table, updates) ==
    IF fault # NULL THEN [error |-> fault, db |-> db]
    ELSE IF ~db.provisioned THEN [error |-> UndefinedTable, db |-> db]
    ELSE IF updates # <<>> /\ "position" \notin ColumnsOf(table)
    THEN [error |-> UnknownColumn("position"), db |-> db]
    ELSE [error |-> NULL, db |-> [db EXCEPT ![table] = UpsertRows(@, table, updates)]]

\* (variant: no error counts as a missing column)
isMissingColumnError_never(error, columnName) == FALSE

\* isMissingColumnError of part_002
isMissingColumnError(error, columnName) ==
    /\ error # NULL
    /\ \/ error.code = "42703"
       \/ columnName \in error.cols

\* the first query of a table and, on a missing-column error, the retry
\* ordered by the fallback key; trace lists the requests issued
OrderedWithFallback(first, retry, table, fallbackKey) ==
    IF first.error = NULL
    THEN [error |-> NULL, data |-> first.data,
          trace |-> <<[q |-> <<table, "position">>, error |-> NULL]>>]
    ELSE IF isMissingColumnError(first.error, "position")
    THEN [error |-> retry.error, data |-> retry.data,
          trace |-> <<[q |-> <<table, "position">>, error |-> first.error],
                      [q |-> <<table, fallbackKey>>, error |-> retry.error]>>]
    ELSE [error |-> first.error, data |-> <<>>,
          trace |-> <<[q |-> <<table, "position">>, error |-> first.error]>>]

\* getProjects with fetchTasksForProjects (part_002)
getProjects_p002 ==
    /\ Frame
    /\ IF RemoteActive
       THEN /\ UNCHANGED <<localStorage, db>>
            /\ \E f1, f2, f3, f4 \in Faults :
               \E p1 \in SelectOrdered(f1, "projects", <<"position", "created_at">>) :
               \E p2 \in SelectOrdered(f2, "projects", <<"created_at">>) :
               \E t1 \in SelectOrdered(f3, "tasks", <<"position", "id">>) :
               \E t2 \in SelectOrdered(f4, "tasks", <<"id">>) :
                  LET p == OrderedWithFallback(p1, p2, "projects", "created_at")
                      t == OrderedWithFallback(t1, t2, "tasks", "id")
                  IN  ret' = IF p.error # NULL
                             THEN Rejected("getProjects", p.error) @@ [trace |-> p.trace]
                             ELSE IF t.error # NULL
                             THEN Rejected("getProjects", t.error)
                                    @@ [trace |-> p.trace \o t.trace]
                             ELSE Ok("getProjects", JoinProjects(p.data, t.data))
                                    @@ [trace |-> p.trace \o t.trace, isArray |-> TRUE]
       ELSE LET r == readLocalData(localStorage.data)
            IN  /\ localStorage' = [localStorage EXCEPT !.data = r.raw]
                /\ ret' = Ok("getProjects",
                             IF "projects" \in DOMAIN r.data THEN r.data.projects ELSE UNDEF)
                            @@ [trace |-> <<>>, isArray |-> "projects" \in DOMAIN r.data]
                /\ UNCHANGED db

\* updateProjects of part_002: an upsert failure is logged, never thrown
updateProjects_p002(projects) ==
    /\ Frame
    /\ IF RemoteActive
       THEN \E f \in Faults :
            LET updates == [i \in 1..Len(projects) |->
                              [id |-> projects[i].id, name |-> projects[i].name,
                               position |-> i - 1]]
                r == Upsert(f, "projects", updates)
            IN  /\ db' = r.db
                /\ ret' = Ok("updateProjects", projects) @@ [upsert |-> r.error]
                /\ UNCHANGED localStorage
       ELSE /\ localStorage' = [localStorage EXCEPT !.data =
                writeLocalData([projects |-> projects] @@ readLocalData(localStorage.data).data)]
            /\ ret' = Ok("updateProjects", projects) @@ [upsert |-> NULL]
            /\ UNCHANGED db

\* p.tasks = tasks for the project found (local branch of updateTaskPositions)
SetTasks(data, projectId, tasks) ==
    LET i == FindIdx(data.projects, projectId)
    IN  IF i = 0 THEN data ELSE [data EXCEPT !.projects[i].tasks = tasks]

\* updateTaskPositions of part_002: an upsert failure is logged, never thrown
updateTaskPositions(projectId, tasks) ==
    /\ Frame
    /\ IF RemoteActive
       THEN \E f \in Faults :
            LET updates == [i \in 1..Len(tasks) |->
                              [id |-> tasks[i].id, project_id |-> projectId,
                               position |-> i - 1]]
                r == Upsert(f, "tasks", updates)
            IN  /\ db' = r.db
                /\ ret' = Ok("updateTaskPositions", UNDEF) @@ [upsert |-> r.error]
                /\ UNCHANGED localStorage
       ELSE /\ localStorage' = [localStorage EXCEPT !.data =
                writeLocalData(SetTasks(readLocalData(localStorage.data).data,
                                        projectId, tasks))]
            /\ ret' = Ok("updateTaskPositions", UNDEF) @@ [upsert |-> NULL]
            /\ UNCHANGED db

\* .from('projects').select('id').limit(1)
ProbeProjects(fault) ==
    IF fault # NULL THEN [error |-> fault, data |-> <<>>]
    ELSE IF ~db.provisioned THEN [error |-> UndefinedTable, data |-> <<>>]
    ELSE [error |-> NULL,
          data |-> IF db.projects = {} THEN <<>> ELSE <<(CHOOSE r \in db.projects : TRUE).id>>]

\* new Error('TABLES_MISSING')
TablesMissing == [kind |-> "Error", message |-> "TABLES_MISSING"]

\* the rows seedDatabase inserts
seedProjectRow == [id |-> Id("p", 1, 0), name |-> "seed-project"]

seedTaskRows ==
    LET tasks == getInitialData.projects[1].tasks
    IN  {[insertTaskRow(seedProjectRow.id, tasks[i]) EXCEPT !.progress = tasks[i].progress] :
            i \in 1..Len(tasks)}

\* seedDatabase of apiService.ts: the project row, then the task rows
seedDatabase(fp, ft) ==
    LET p == InsertProject(fp, seedProjectRow)
    IN  IF p.error # NULL THEN p
        ELSE IF ft # NULL THEN [error |-> ft, db |-> p.db]
        ELSE [error |-> NULL, db |-> [p.db EXCEPT !.tasks = @ \cup seedTaskRows]]

\* checkConnectionAndSeed: apiService.ts rethrows every probe error and seeds
\* an empty store; part_002 throws on 42P01 only and never seeds
checkConnectionAndSeed ==
    /\ Frame
    /\ UNCHANGED localStorage
    /\ IF ~RemoteActive
       THEN /\ ret' = Ok("checkConnectionAndSeed", UNDEF) @@ [probe |-> NULL]
            /\ UNCHANGED db
       ELSE \E f, fp, ft \in Faults :
            LET probe == ProbeProjects(f)
                seeded == seedDatabase(fp, ft)
                args == [probe |-> probe.error]
            IN  IF probe.error # NULL /\ probe.error.code = "42P01"
                THEN /\ ret' = Rejected("checkConnectionAndSeed", TablesMissing) @@ args
                     /\ UNCHANGED db
                ELSE IF ver = "p002"
                THEN /\ ret' = Ok("checkConnectionAndSeed", UNDEF) @@ args
                     /\ UNCHANGED db
                ELSE IF probe.error # NULL
                THEN /\ ret' = Rejected("checkConnectionAndSeed", probe.error) @@ args
                     /\ UNCHANGED db
                ELSE IF Len(probe.data) = 0
                THEN /\ db' = seeded.db
                     /\ ret' = (IF seeded.error # NULL
                                THEN Rejected("checkConnectionAndSeed", seeded.error)
                                ELSE Ok("checkConnectionAndSeed", UNDEF)) @@ args
                ELSE /\ ret' = Ok("checkConnectionAndSeed", UNDEF) @@ args
                     /\ UNCHANGED db

-----------------------------------------------------------------------------
(* The environment and the callers *)

Tick ==
    /\ now < MaxClock
    /\ now' = now + 1
    /\ UNCHANGED <<clients, app, ver, GLOBAL_SUPABASE_URL, GLOBAL_SUPABASE_KEY, localStorage, supabase,
                   useSupabase, db, subscriptions, pending, ret>>

\* the stored local projects, as serialized
LocalProjects ==
    IF localStorage.data.kind = "json" /\ "projects" \in DOMAIN localStorage.data.val
    THEN localStorage.data.val.projects ELSE <<>>

\* identifiers a caller can name: the seed's, those Date.now() has produced,
\* and one that names nothing
ProjectIds == {Id("p", 1, 0), Id("project", 0, 0)} \cup {Id("project", n, 0) : n \in 1..now}

\* (project, task) pairs a caller can name: the stored ones and one that is not
LocalTargets ==
    {<<LocalProjects[i].id, t.id>> : <<i, t>> \in
        UNION {{<<i, u>> : u \in Range(LocalProjects[i].tasks)} : i \in 1..Len(LocalProjects)}}

RemoteTargets == {<<t.project_id, t.id>> : t \in db.tasks}

Targets ==
    {<<Id("p", 1, 0), Id("t", 1, 0)>>, <<Id("p", 1, 0), Id("task", 0, 0)>>}
    \cup {x \in LocalTargets \cup RemoteTargets : x[2].pre = "task"}

\* projects created through addProject in the backend that is active
AddedProjects ==
    IF RemoteActive THEN Cardinality(db.projects)
    ELSE Cardinality({i \in 1..Len(LocalProjects) : LocalProjects[i].id.pre = "project"})

\* tasks created through addTask in the backend that is active
AddedTasks ==
    IF RemoteActive THEN Cardinality(db.tasks)
    ELSE Cardinality({<<i, j>> \in (1..Len(LocalProjects)) \X (1..(3 + MaxTasks)) :
                         /\ j <= Len(LocalProjects[i].tasks)
                         /\ LocalProjects[i].tasks[j].id.pre = "task"})

InitEnv ==
    /\ now = 1
    /\ subscriptions = <<>>
    /\ pending = NULL
    /\ app = Unmounted
    /\ clients = Idle
    /\ db = [provisioned |-> TRUE, projCols |-> {"created_at"}, taskCols |-> {},
             projects |-> {}, tasks |-> {}, departments |-> {}, employees |-> {}]
    /\ ret = [op |-> "load"]

InitConn(configs) ==
    \E data \in {Absent, Malformed}, config \in configs :
        LET conn == LoadModule(config)
        IN  /\ supabase = conn.supabase
            /\ useSupabase = conn.useSupabase
            /\ localStorage = [data |-> data, config |-> conn.config]

StoredConfigs == {Absent, Json([url |-> "https://u", key |-> "k"])}

-----------------------------------------------------------------------------
(* Specification Spec: connection bootstrap, mode switching and the        *)
(* project-level operations over both backends                             *)

Init ==
    /\ ver = "api"
    /\ GLOBAL_SUPABASE_URL \in {"", "https://g"}
    /\ GLOBAL_SUPABASE_KEY \in {"", "gk"}
    /\ InitEnv
    /\ InitConn(StoredConfigs)

Next ==
    \/ Tick
    \/ \E url \in Urls, key \in Keys : initSupabase(url, key)
    \/ getProjects
    \/ \E name \in {"A"} : AddedProjects < MaxProjects /\ addProject(name)
    \/ \E id \in ProjectIds : deleteProject(id)

Spec == Init /\ [][Next]_vars

-----------------------------------------------------------------------------
(* Specification SpecCrud: project and task operations in a mode fixed at  *)
(* load time (no compiled-in configuration; remote when a configuration is *)
(* persisted), all issued within one reading of the clock                  *)

InitCrud ==
    /\ ver = "api"
    /\ GLOBAL_SUPABASE_URL = ""
    /\ GLOBAL_SUPABASE_KEY = ""
    /\ InitEnv
    /\ InitConn(StoredConfigs)

NextCrud ==
    \/ getProjects
    \/ \E name \in {"A"} : AddedProjects < MaxProjects /\ addProject(name)
    \/ \E id \in ProjectIds : deleteProject(id)
    \/ \E id \in ProjectIds, data \in TaskInputs, c \in colors, r \in Suffixes :
          AddedTasks < MaxTasks /\ addTask(id, data, c, r)
    \/ \E target \in Targets, patch \in TaskPatches :
          updateTask(target[1], target[2], patch)

SpecCrud == InitCrud /\ [][NextCrud]_vars

-----------------------------------------------------------------------------
(* Specification SpecNamed: updates and deletions by identifier, of stored *)
(* and of absent projects and tasks, in a mode fixed at load time          *)

\* (project, task) pairs a caller can name: stored ones, a task that is not
\* in its project, a task of a project that is not stored
NamedTargets == Targets \cup {<<Id("project", 0, 0), Id("t", 1, 0)>>}

NextNamed ==
    \/ getProjects
    \/ \E name \in {"A"} : AddedProjects < MaxProjects /\ addProject(name)
    \/ \E id \in ProjectIds, name \in {"A"} : updateProject(id, name)
    \/ \E id \in ProjectIds : deleteProject(id)
    \/ \E target \in NamedTargets, patch \in {[progress |-> 42]} :
          updateTask(target[1], target[2], patch)
    \/ \E target \in NamedTargets : deleteTask(target[1], target[2])

SpecNamed == InitCrud /\ [][NextNamed]_vars

-----------------------------------------------------------------------------
(* Specification SpecRemote: the six writes of apiService.ts, each request *)
(* answered or failed by the backend, in a mode fixed at load time         *)

NextRemote ==
    \/ \E name \in {"A"} : AddedProjects < MaxProjects /\ addProject(name)
    \/ \E id \in ProjectIds, name \in {"B"} : updateProject(id, name)
    \/ \E id \in ProjectIds : deleteProject(id)
    \/ \E id \in ProjectIds, data \in TaskInputs, c \in {"bg-rose-500"}, r \in {1} :
          AddedTasks < MaxTasks /\ addTask(id, data, c, r)
    \/ \E target \in NamedTargets, patch \in {[progress |-> 42]} :
          updateTask(target[1], target[2], patch)
    \/ \E target \in NamedTargets : deleteTask(target[1], target[2])

SpecRemote == InitCrud /\ [][NextRemote]_vars

-----------------------------------------------------------------------------
(* Specification SpecOrg: the departments and employees of part_000 and    *)
(* part_002 (no compiled-in configuration; remote when a configuration is  *)
(* persisted)                                                              *)

\* a record written before the organisation existed
LegacyRecord == Json([projects |-> <<>>])

\* the stored local organisation, as a local read sees it
LocalOrg == readLocalData(localStorage.data).data

OrgList(key) ==
    IF RemoteActive THEN <<>>
    ELSE IF key \in DOMAIN LocalOrg THEN LocalOrg[key] ELSE <<>>

\* departments / employees created through addDepartment / addEmployee
AddedOrg(key, pre) ==
    IF RemoteActive THEN Cardinality(db[key])
    ELSE Cardinality({i \in 1..Len(OrgList(key)) : OrgList(key)[i].id.pre = pre})

\* identifiers a caller can name: a seed one and those Date.now() has produced
DepartmentIds == {Id("d", 1, 0)} \cup {Id("dept", n, 0) : n \in 1..now}
EmployeeIds == {Id("e", 1, 0)} \cup {Id("emp", n, 0) : n \in 1..now}

\* valid JSON without a projects array
NoProjectsRecord == Json([departments |-> <<>>, employees |-> <<>>])

\* a project stored without a tasks array
NoTasksRecord ==
    Json([projects |-> <<[id |-> Id("p", 1, 0), name |-> "A"]>>,
          departments |-> <<>>, employees |-> <<>>])

StoredRecords == {Absent, Malformed, LegacyRecord, NoProjectsRecord, NoTasksRecord}

InitOrg ==
    /\ ver \in {"p000", "p002"}
    /\ GLOBAL_SUPABASE_URL = ""
    /\ GLOBAL_SUPABASE_KEY = ""
    /\ InitEnv
    /\ \E data \in StoredRecords, config \in StoredConfigs :
          LET conn == LoadModule(config)
          IN  /\ supabase = conn.supabase
              /\ useSupabase = conn.useSupabase
              /\ localStorage = [data |-> data, config |-> conn.config]

NextOrg ==
    \/ Tick
    \/ ver = "p000" /\ getProjects
    \/ ver = "p002" /\ getProjects_p002
    \/ getDepartments
    \/ getEmployees
    \/ \E name \in {"A"} : AddedOrg("departments", "dept") < MaxOrg /\ addDepartment(name)
    \/ \E id \in DepartmentIds : deleteDepartment(id)
    \/ \E name \in {"A"}, id \in DepartmentIds :
          AddedOrg("employees", "emp") < MaxOrg /\ addEmployee(name, id)
    \/ \E id \in EmployeeIds : deleteEmployee(id)

SpecOrg == InitOrg /\ [][NextOrg]_vars

-----------------------------------------------------------------------------
(* Specification SpecDrift: a connected client (part_002, apiService.ts)   *)
(* in front of a store whose schema may have drifted                       *)

\* a projects row written before the client connected; rows inserted later
\* have the smaller created_at here, so that creation order is not id order
DriftProjectRow(k, n, cols) ==
    LET row == [id |-> Id("project", k, 0), name |-> "A", created_at |-> n + 1 - k]
    IN  IF "position" \in cols THEN row @@ [position |-> 999] ELSE row

DriftTaskRow(j, cols) ==
    LET row == [id |-> Id("task", j, 0), project_id |-> Id("project", 1, 0), name |-> "A",
                start_date |-> toISODate(Date(3)), end_date |-> toISODate(Date(5)),
                color |-> "bg-blue-500", employee_id |-> Id("e", 1, 0), progress |-> 0,
                description |-> DBNULL]
    IN  IF "position" \in cols THEN row @@ [position |-> 999] ELSE row

\* the stores a client can find: tables missing, or tables with or without
\* the position / created_at columns holding up to MaxRows rows each
DriftDbs ==
    {[provisioned |-> FALSE, projCols |-> {}, taskCols |-> {},
      projects |-> {}, tasks |-> {}, departments |-> {}, employees |-> {}]}
    \cup
    {[provisioned |-> TRUE, projCols |-> s.pc, taskCols |-> s.tc,
      projects |-> {DriftProjectRow(k, s.n, s.pc) : k \in 1..s.n},
      tasks |-> {DriftTaskRow(j, s.tc) : j \in 1..s.m},
      departments |-> {}, employees |-> {}] :
        s \in {x \in [pc : SUBSET {"position", "created_at"}, tc : SUBSET {"position"},
                      n : 0..MaxRows, m : 0..MaxRows] : x.n = 0 => x.m = 0}}

\* the orders a caller can pass to updateProjects / updateTaskPositions
ProjectOrders ==
    Perms({[id |-> r.id, name |-> r.name, tasks |-> <<>>] : r \in db.projects})

TaskOrders(projectId) ==
    Perms({MapTaskRow(t) : t \in {r \in db.tasks : r.project_id = projectId}})

InitDrift ==
    /\ ver \in {"p002", "api"}
    /\ GLOBAL_SUPABASE_URL = ""
    /\ GLOBAL_SUPABASE_KEY = ""
    /\ now = 1
    /\ subscriptions = <<>>
    /\ pending = NULL
    /\ app = Unmounted
    /\ clients = Idle
    /\ ret = [op |-> "load"]
    /\ db \in DriftDbs
    /\ LET conn == LoadModule(Json([url |-> "https://u", key |-> "k"]))
       IN  /\ supabase = conn.supabase
           /\ useSupabase = conn.useSupabase
           /\ localStorage = [data |-> Absent, config |-> conn.config]

NextDrift ==
    \/ ver = "p002" /\ getProjects_p002
    \/ \E projects \in ProjectOrders : ver = "p002" /\ updateProjects_p002(projects)
    \/ \E r \in db.projects : \E tasks \in TaskOrders(r.id) :
          ver = "p002" /\ updateTaskPositions(r.id, tasks)
    \/ checkConnectionAndSeed

SpecDrift == InitDrift /\ [][NextDrift]_vars

-----------------------------------------------------------------------------
(* Realtime subscription (subscribeToChanges) and the reads of the        *)
(* module-level handle by a getProjects call suspended at an await         *)

MaxSubs == 2        \* subscribeToChanges is not issued beyond this many calls
MaxEvents == 1      \* change events delivered to one subscription

\* (variant: the guard of subscribeToChanges looks at the handle only)
opensChannel_handleOnly == supabase # NULL

\* the guard of subscribeToChanges: !(!useSupabase || !supabase)
opensChannel == useSupabase /\ supabase # NULL

\* supabase.channel(...).on(...).subscribe(): a channel of the client that
\* is the module-level handle at this moment
OpenChannel == [client |-> supabase, attached |-> TRUE, open |-> TRUE]

\* subscribeToChanges(callback); the entry keeps what the returned closure
\* captured (channel, NULL for () => {}) and counts the callback's calls
subscribeToChanges ==
    /\ Len(subscriptions) < MaxSubs
    /\ subscriptions' = Append(subscriptions,
                               [channel |-> IF opensChannel THEN OpenChannel ELSE NULL,
                                calls |-> 0])
    /\ ret' = [op |-> "subscribeToChanges", sub |-> Len(subscriptions) + 1,
               enabled |-> isSupabaseEnabled]
    /\ UNCHANGED <<clients, app, ver, GLOBAL_SUPABASE_URL, GLOBAL_SUPABASE_KEY, localStorage, supabase,
                   useSupabase, db, now, pending>>

\* supabase?.removeChannel(channel) as the returned closure runs it: on the
\* handle of this moment.  Handed to a client that did not open the channel,
\* the library may or may not release it.
removeChannel(channel) ==
    IF supabase = NULL THEN {channel}
    ELSE IF channel.attached THEN {[channel EXCEPT !.open = FALSE]}
    ELSE {channel, [channel EXCEPT !.open = FALSE]}

\* a call of the closure that the i-th subscribeToChanges returned
unsubscribe(i) ==
    /\ i \in 1..Len(subscriptions)
    /\ IF subscriptions[i].channel = NULL
       THEN UNCHANGED subscriptions
       ELSE \E channel \in removeChannel(subscriptions[i].channel) :
               subscriptions' = [subscriptions EXCEPT ![i].channel = channel]
    /\ ret' = [op |-> "unsubscribe", sub |-> i]
    /\ UNCHANGED <<clients, app, ver, GLOBAL_SUPABASE_URL, GLOBAL_SUPABASE_KEY, localStorage, supabase,
                   useSupabase, db, now, pending>>

Listening(sub) == sub.channel # NULL /\ sub.channel.open

\* the subscriptions after every open channel has called its callback
Notified ==
    [i \in 1..Len(subscriptions) |->
        IF Listening(subscriptions[i])
        THEN [subscriptions[i] EXCEPT !.calls = @ + 1]
        ELSE subscriptions[i]]

\* a postgres_changes event on projects / tasks: every open channel calls
\* its callback
postgres_changes ==
    /\ \E i \in 1..Len(subscriptions) : Listening(subscriptions[i])
    /\ \A i \in 1..Len(subscriptions) :
          Listening(subscriptions[i]) => subscriptions[i].calls < MaxEvents
    /\ subscriptions' = Notified
    /\ ret' = [op |-> "postgres_changes"]
    /\ UNCHANGED <<clients, app, ver, GLOBAL_SUPABASE_URL, GLOBAL_SUPABASE_KEY, localStorage, supabase,
                   useSupabase, db, now, pending>>

\* A suspended getProjects call: stage names the request it awaits, attached
\* tells whether the module-level handle still is the client the call
\* started with, sameHandle whether every request so far went to that client.
StartedCall == [stage |-> "projects", attached |-> TRUE, sameHandle |-> TRUE, data |-> <<>>]

\* "await supabase.from(...)" in the continuation: the request goes to the
\* module-level handle of this moment, and the call is suspended again
IssueQuery(call, stage) ==
    [call |-> [call EXCEPT !.stage = stage, !.sameHandle = call.sameHandle /\ call.attached],
     ret |-> NULL]

\* the promise of the call settles
Settled(call, outcome) ==
    [call |-> NULL,
     ret |-> [outcome EXCEPT !.remote = TRUE] @@ [sameHandle |-> call.sameHandle]]

\* supabase.from(...) while the module-level handle is null
NullHandle(call) ==
    Settled([call EXCEPT !.sameHandle = FALSE], Rejected("getProjects", TypeError))

\* apiService.ts: after the projects arrive the tasks are requested from
\* the module-level handle
resume_api(call) ==
    IF call.stage = "projects"
    THEN UNION {{IF p.error # NULL THEN Settled(call, Rejected("getProjects", p.error))
                 ELSE IF supabase = NULL THEN NullHandle(call)
                 ELSE IssueQuery([call EXCEPT !.data = p.data], "tasks")
                 : p \in SelectProjectsByCreatedAt(f)} : f \in Faults}
    ELSE UNION {{IF t.error # NULL THEN Settled(call, Rejected("getProjects", t.error))
                 ELSE Settled(call, Ok("getProjects", JoinProjects(call.data, t.data)))
                 : t \in SelectTasks(f)} : f \in Faults}

\* part_002, fetchTasksForProjects: "if (!supabase) return []", else the
\* tasks are requested from the module-level handle
fetchTasksForProjects(call, projectsData) ==
    IF supabase = NULL
    THEN Settled([call EXCEPT !.sameHandle = FALSE], Ok("getProjects", <<>>))
    ELSE IssueQuery([call EXCEPT !.data = projectsData], "tasks")

\* part_002: the retry after a missing-column error
RetryQuery(call, stage) ==
    IF supabase = NULL THEN NullHandle(call) ELSE IssueQuery(call, stage)

resume_p002(call) ==
    CASE call.stage = "projects" ->
            UNION {{IF p.error = NULL THEN fetchTasksForProjects(call, p.data)
                    ELSE IF isMissingColumnError(p.error, "position")
                    THEN RetryQuery(call, "projectsFallback")
                    ELSE Settled(call, Rejected("getProjects", p.error))
                    : p \in SelectOrdered(f, "projects", <<"position", "created_at">>)}
                   : f \in Faults}
      [] call.stage = "projectsFallback" ->
            UNION {{IF p.error = NULL THEN fetchTasksForProjects(call, p.data)
                    ELSE Settled(call, Rejected("getProjects", p.error))
                    : p \in SelectOrdered(f, "projects", <<"created_at">>)}
                   : f \in Faults}
      [] call.stage = "tasks" ->
            UNION {{IF t.error = NULL
                    THEN Settled(call, Ok("getProjects", JoinProjects(call.data, t.data)))
                    ELSE IF isMissingColumnError(t.error, "position")
                    THEN RetryQuery(call, "tasksFallback")
                    ELSE Settled(call, Rejected("getProjects", t.error))
                    : t \in SelectOrdered(f, "tasks", <<"position", "id">>)}
                   : f \in Faults}
      [] OTHER ->
            UNION {{IF t.error = NULL
                    THEN Settled(call, Ok("getProjects", JoinProjects(call.data, t.data)))
                    ELSE Settled(call, Rejected("getProjects", t.error))
                    : t \in SelectOrdered(f, "tasks", <<"id">>)}
                   : f \in Faults}

\* getProjects up to its first await: the remote branch sends the projects
\* request to the handle and is suspended; the local branch completes
getProjectsStart ==
    IF RemoteActive
    THEN /\ pending = NULL
         /\ pending' = StartedCall
         /\ UNCHANGED <<clients, app, ver, GLOBAL_SUPABASE_URL, GLOBAL_SUPABASE_KEY, localStorage, supabase,
                        useSupabase, db, now, subscriptions, ret>>
    ELSE IF ver = "p002" THEN getProjects_p002 ELSE getProjects

\* the continuation of the suspended call after the awaited response
getProjectsResume ==
    /\ pending # NULL
    /\ \E o \in IF ver = "p002" THEN resume_p002(pending) ELSE resume_api(pending) :
          /\ pending' = o.call
          /\ ret' = IF o.ret = NULL THEN ret ELSE o.ret
    /\ UNCHANGED <<clients, app, ver, GLOBAL_SUPABASE_URL, GLOBAL_SUPABASE_KEY, localStorage, supabase,
                   useSupabase, db, now, subscriptions>>

-----------------------------------------------------------------------------
(* Specification SpecLive: reconfiguration of the connection while         *)
(* subscriptions are open (apiService.ts, part_002; with and without a     *)
(* compiled-in configuration)                                              *)

InitLive ==
    /\ ver \in {"api", "p002"}
    /\ \E g \in {[url |-> "", key |-> ""], [url |-> "https://g", key |-> "gk"]} :
          /\ GLOBAL_SUPABASE_URL = g.url
          /\ GLOBAL_SUPABASE_KEY = g.key
    /\ InitEnv
    /\ \E config \in StoredConfigs :
          LET conn == LoadModule(config)
          IN  /\ supabase = conn.supabase
              /\ useSupabase = conn.useSupabase
              /\ localStorage = [data |-> Absent, config |-> conn.config]

\* what the settings dialog hands to initSupabase: cleared fields, a
\* working pair, a pair no client can be constructed from
Credentials == {<<"", "">>, <<"https://u", "k">>, <<"not-a-url", "k">>}

\* the sbUrl / sbKey parameters of the page address: none, or a shared link
LinkParams == {<<"", "">>, <<"https://u", "k">>}

NextLive ==
    \/ \E c \in Credentials : initSupabase(c[1], c[2])
    \/ \E q \in LinkParams : initSupabaseFromUrl(q[1], q[2])
    \/ subscribeToChanges
    \/ \E i \in 1..MaxSubs : unsubscribe(i)
    \/ postgres_changes

SpecLive == InitLive /\ [][NextLive]_vars

-----------------------------------------------------------------------------
(* Specification SpecInFlight: reconfiguration of the connection while a   *)
(* getProjects call is suspended (apiService.ts, part_002; with and        *)
(* without a compiled-in configuration)                                    *)

InitInFlight ==
    /\ ver \in {"api", "p002"}
    /\ \E g \in {[url |-> "", key |-> ""], [url |-> "https://g", key |-> "gk"]} :
          /\ GLOBAL_SUPABASE_URL = g.url
          /\ GLOBAL_SUPABASE_KEY = g.key
    /\ InitEnv
    /\ InitConn(StoredConfigs)

NextInFlight ==
    \/ \E url \in Urls, key \in Keys : initSupabase(url, key)
    \/ getProjectsStart
    \/ getProjectsResume

SpecInFlight == InitInFlight /\ [][NextInFlight]_vars

-----------------------------------------------------------------------------
(* Specification SpecIds: creations issued faster than the clock advances  *)
(* (addProject and addTask of apiService.ts, addTask of part_002)          *)

MaxIds == 2         \* creations of one kind issued in one behaviour

\* addTask of part_002: the identifier is `task-${Date.now()}` alone, the
\* color is fixed, the local branch writes and resolves whether or not the
\* project was found
addTask_p002(projectId, taskData) ==
    LET newTask == [color |-> "bg-blue-500", progress |-> 0] @@ taskData
                       @@ [id |-> Id("task", now, 0)]
    IN  /\ Frame
        /\ IF RemoteActive
           THEN \E f \in Faults :
                LET r == IF f = NULL /\ db.provisioned /\ "position" \notin ColumnsOf("tasks")
                         THEN [error |-> UnknownColumn("position"), db |-> db]
                         ELSE InsertTask(f, insertTaskRow(projectId, newTask)
                                               @@ [position |-> 999])
                IN  /\ db' = r.db
                    /\ ret' = (IF r.error # NULL THEN Rejected("addTask", r.error)
                               ELSE Ok("addTask", newTask)) @@ [projectId |-> projectId]
                    /\ UNCHANGED localStorage
           ELSE LET r == readLocalData(localStorage.data)
                    pi == FindIdx(r.data.projects, projectId)
                IN  /\ UNCHANGED db
                    /\ localStorage' = [localStorage EXCEPT !.data =
                          writeLocalData(IF pi = 0 THEN r.data
                                         ELSE [r.data EXCEPT !.projects[pi].tasks =
                                                  Append(@, newTask)])]
                    /\ ret' = Ok("addTask", newTask) @@ [projectId |-> projectId]

\* the tasks of the stored local record, project by project
LocalTaskIds ==
    [i \in 1..Len(LocalProjects) |->
        [j \in 1..Len(LocalProjects[i].tasks) |-> LocalProjects[i].tasks[j].id]]

\* tasks created through addTask in the stored local record
CreatedLocalTasks ==
    {<<i, j>> \in (1..Len(LocalProjects)) \X (1..(3 + MaxIds)) :
        j <= Len(LocalTaskIds[i]) /\ LocalTaskIds[i][j].pre = "task"}

InitIds ==
    /\ ver \in {"api", "p002"}
    /\ GLOBAL_SUPABASE_URL = ""
    /\ GLOBAL_SUPABASE_KEY = ""
    /\ now = 1
    /\ subscriptions = <<>>
    /\ pending = NULL
    /\ app = Unmounted
    /\ clients = Idle
    /\ ret = [op |-> "load"]
    /\ db = [provisioned |-> TRUE, projCols |-> {"created_at", "position"},
             taskCols |-> {"position"},
             projects |-> {[id |-> Id("p", 1, 0), name |-> "A", created_at |-> 0,
                            position |-> 0]},
             tasks |-> {}, departments |-> {}, employees |-> {}]
    /\ \E config \in StoredConfigs :
          LET conn == LoadModule(config)
          IN  /\ supabase = conn.supabase
              /\ useSupabase = conn.useSupabase
              /\ localStorage = [data |-> Absent, config |-> conn.config]

NextIds ==
    \/ Tick
    \/ \E name \in {"A", "B"} :
          /\ ver = "api"
          /\ (IF RemoteActive THEN Cardinality(db.projects) - 1
              ELSE Len(LocalProjects) - 1) < MaxIds
          /\ addProject(name)
    \/ \E id \in ProjectIds, data \in TaskInputs, c \in colors, r \in Suffixes :
          /\ ver = "api"
          /\ (IF RemoteActive THEN Cardinality(db.tasks)
              ELSE Cardinality(CreatedLocalTasks)) < MaxIds
          /\ addTask(id, data, c, r)
    \/ \E id \in ProjectIds, data \in TaskInputs :
          /\ ver = "p002"
          /\ (IF RemoteActive THEN Cardinality(db.tasks)
              ELSE Cardinality(CreatedLocalTasks)) < MaxIds
          /\ addTask_p002(id, data)

SpecIds == InitIds /\ [][NextIds]_vars

-----------------------------------------------------------------------------
(* Specification SpecPatch: a task created through addTask and edited      *)
(* through updateTask, with the patches the task dialog and its callers    *)
(* can build (apiService.ts, both backends)                                *)

\* Partial<Omit<Task, 'id'>>: single fields (a cleared name, no employee, an
\* empty description, a color, one date only) and a whole edit
EditPatches ==
    { [name |-> ""], [employeeId |-> Id("", 0, 0)], [description |-> ""],
      [color |-> "bg-lime-500"], [startDate |-> Date(9)], [endDate |-> Date(1)],
      [progress |-> 42],
      [name |-> "B", employeeId |-> Id("e", 2, 0), startDate |-> Date(3),
       endDate |-> Date(7), description |-> "d"] }

NextPatch ==
    \/ getProjects
    \/ \E id \in {Id("p", 1, 0)}, data \in TaskInputs, c \in colors, r \in {1} :
          /\ (IF RemoteActive THEN Cardinality(db.tasks)
              ELSE Cardinality(CreatedLocalTasks)) < MaxTasks
          /\ addTask(id, data, c, r)
    \/ \E target \in {x \in LocalTargets \cup RemoteTargets : x[2].pre = "task"},
          patch \in EditPatches :
          updateTask(target[1], target[2], patch)

InitPatch ==
    /\ InitIds
    /\ ver = "api"

SpecPatch == InitPatch /\ [][NextPatch]_vars

-----------------------------------------------------------------------------
(* Specification SpecReorder: updateProjects of apiService.ts, called with *)
(* reorderings of the projects the board shows                             *)

\* (variant: the argument is dropped and the stored array kept)
AssignProjects_kept(data, projects) == data

\* data.projects = projects
AssignProjects(data, projects) == [data EXCEPT !.projects = projects]

\* updateProjects: the local store is written when the flag is off, nothing
\* is sent when it is on; ret.prev is the argument of the call before, when
\* that was an updateProjects too
updateProjects(projects) ==
    /\ Frame
    /\ UNCHANGED db
    /\ localStorage' =
          IF ~useSupabase
          THEN [localStorage EXCEPT !.data =
                   writeLocalData(AssignProjects(readLocalData(localStorage.data).data, projects))]
          ELSE localStorage
    /\ ret' = LET done == [op |-> "updateProjects", status |-> "ok", val |-> projects,
                            remote |-> RemoteActive,
                            prev |-> IF ret.op = "updateProjects" THEN ret.val ELSE <<>>]
              IN  IF ~useSupabase THEN LocalAccess @@ done ELSE done

\* the orders a drag on the board can produce from the list it shows, which
\* a filter may have shortened
BoardOrders ==
    UNION {Perms(S) : S \in SUBSET Range(readLocalData_api(localStorage.data).data.projects)}

NextReorder ==
    \/ Tick
    \/ getProjects
    \/ \E name \in {"A", "B"} : AddedProjects < MaxProjects /\ addProject(name)
    \/ \E projects \in BoardOrders : updateProjects(projects)

SpecReorder == InitCrud /\ [][NextReorder]_vars

-----------------------------------------------------------------------------
(* Specification SpecRoundTrip: writeLocalData followed by readLocalData   *)
(* (apiService.ts) over well-formed datasets                               *)

MaxLen == 2         \* projects in a written dataset

\* tasks with instants inside a day and the three states of the optional
\* description: a text, the empty text, undefined
SampleTasks ==
    { [id |-> Id("t", 1, 0), name |-> "A", startDate |-> Date(s), endDate |-> Date(3),
       color |-> "bg-blue-500", employeeId |-> Id("e", 1, 0), progress |-> 0,
       description |-> d] : s \in {1, 2}, d \in {"d", "", UNDEF} }

SampleProjects ==
    { [id |-> Id("p", 1, 0), name |-> "A", tasks |-> ts] :
        ts \in {<<>>} \cup {<<t>> : t \in SampleTasks} }

WellFormedDatasets ==
    { [projects |-> ps, departments |-> org.departments, employees |-> org.employees] :
        ps \in UNION {[1..n -> SampleProjects] : n \in 0..MaxLen},
        org \in {[departments |-> <<>>, employees |-> <<>>],
                 [departments |-> initialDepartments, employees |-> initialEmployees]} }

\* writeLocalData(data) and then readLocalData()
roundTrip(data) ==
    /\ Frame
    /\ UNCHANGED db
    /\ localStorage' = [localStorage EXCEPT !.data = writeLocalData(data)]
    /\ ret' = [op |-> "roundTrip", written |-> data,
               read |-> readLocalData_api(writeLocalData(data)).data]

NextRoundTrip ==
    \/ \E data \in WellFormedDatasets : roundTrip(data)
    \/ getProjects

InitRoundTrip ==
    /\ InitCrud
    /\ ~useSupabase

SpecRoundTrip == InitRoundTrip /\ [][NextRoundTrip]_vars

-----------------------------------------------------------------------------
(* Specification SpecWrites: local writes issued one after the other, with *)
(* and without a reading of the clock in between; a call's local branch    *)
(* has no await, so it runs to its end inside the call that issues it      *)

NextWrites ==
    \/ Tick
    \/ \E name \in {"A", "B"} : AddedProjects <= MaxProjects /\ addProject(name)
    \/ \E id \in ProjectIds : deleteProject(id)
    \/ \E id \in ProjectIds, data \in TaskInputs, c \in {"bg-rose-500"}, r \in {1} :
          AddedTasks < MaxTasks /\ addTask(id, data, c, r)

InitWrites ==
    /\ InitCrud
    /\ ~RemoteActive

SpecWrites == InitWrites /\ [][NextWrites]_vars

-----------------------------------------------------------------------------
(* The App component of index.tsx on apiService.ts: the project list it    *)
(* keeps in memory, the reads it has in flight and the unsubscribe handles *)
(* it holds.  A remote read is answered from the rows of the moment it is  *)
(* issued and completes in a later step; a local read has no await that    *)
(* yields to another handler and completes in the step that issues it.     *)

MaxReads == 3       \* reads the App has in flight at one time

\* what a served getProjects resolves with over the given record and rows
ProjectsRead(remote, raw, rows) ==
    IF remote
    THEN {JoinProjects(p, t) : p \in ByCreatedAt(rows.projects), t \in Perms(rows.tasks)}
    ELSE {readLocalData(raw).data.projects}

\* fetchData / loadData: getProjects() is called now, setProjects(p) runs
\* when the promise resolves
IssueRead(a, remote, val) ==
    IF remote
    THEN [a EXCEPT !.reads = Append(@, [val |-> val, stale |-> FALSE]), !.fresh = TRUE]
    ELSE [a EXCEPT !.projects = val, !.fresh = TRUE]

\* a write by a handler: the reads in flight were answered before it
MarkWrite(a, kind) ==
    [a EXCEPT !.reads = [i \in 1..Len(@) |-> [@[i] EXCEPT !.stale = TRUE]],
              !.fresh = FALSE, !.lastWrite = kind]

\* the entry subscribeToChanges makes for a call issued now
NewSubscription == [channel |-> IF opensChannel THEN OpenChannel ELSE NULL, calls |-> 0]

\* the component mounts with no sbUrl / sbKey in the page address: the
\* effects run in the order of their declaration -- loadData(); the realtime
\* effect subscribes when isSupabaseEnabled(); the mount effect calls
\* fetchData() and subscribes
mount ==
    /\ ~app.mounted
    /\ LET opened == (IF isSupabaseEnabled THEN <<NewSubscription>> ELSE <<>>)
                     \o <<NewSubscription>>
       IN  /\ subscriptions' = subscriptions \o opened
           /\ \E v1, v2 \in ProjectsRead(RemoteActive, localStorage.data, db) :
                 app' = IssueRead(IssueRead(
                           [app EXCEPT !.mounted = TRUE,
                                       !.handles = (Len(subscriptions) + 1)
                                                     ..(Len(subscriptions) + Len(opened))],
                           RemoteActive, v1), RemoteActive, v2)
    /\ localStorage' = IF RemoteActive THEN localStorage
                       ELSE [localStorage EXCEPT !.data = readLocalData(localStorage.data).raw]
    /\ ret' = [op |-> "mount"]
    /\ UNCHANGED <<clients, ver, GLOBAL_SUPABASE_URL, GLOBAL_SUPABASE_KEY, supabase, useSupabase, db,
                   now, pending>>

\* the promise of a read in flight resolves: setProjects(p)
setProjects(i) ==
    /\ i \in 1..Len(app.reads)
    /\ app' = [app EXCEPT !.projects = app.reads[i].val,
                          !.reads = SubSeq(@, 1, i - 1) \o SubSeq(@, i + 1, Len(@))]
    /\ ret' = [op |-> "setProjects", stale |-> app.reads[i].stale]
    /\ UNCHANGED <<clients, ver, GLOBAL_SUPABASE_URL, GLOBAL_SUPABASE_KEY, localStorage, supabase,
                   useSupabase, db, now, subscriptions, pending>>

\* a change notification: every open channel the App holds calls its
\* callback, which calls loadData / fetchData
changeNotification ==
    LET live == {i \in app.handles : Listening(subscriptions[i])}
    IN  /\ app.mounted
        /\ live # {}
        /\ \A i \in live : subscriptions[i].calls < MaxEvents
        /\ Len(app.reads) + Cardinality(live) <= MaxReads
        /\ subscriptions' = Notified
        /\ \E v \in ProjectsRead(RemoteActive, localStorage.data, db) :
              app' = IF RemoteActive
                     THEN [app EXCEPT !.reads = @ \o [i \in 1..Cardinality(live) |->
                                                        [val |-> v, stale |-> FALSE]],
                                      !.fresh = TRUE]
                     ELSE IssueRead(app, FALSE, v)
        /\ localStorage' = IF RemoteActive THEN localStorage
                           ELSE [localStorage EXCEPT !.data =
                                    readLocalData(localStorage.data).raw]
        /\ ret' = [op |-> "changeNotification"]
        /\ UNCHANGED <<clients, ver, GLOBAL_SUPABASE_URL, GLOBAL_SUPABASE_KEY, supabase, useSupabase,
                       db, now, pending>>

\* handleProjectSubmit with no project in the dialog: await addProject(name);
\* await fetchData().  A rejected addProject is reported and nothing is read.
handleProjectSubmit(name) ==
    LET newProject == [id |-> Id("project", now, 0), name |-> name, tasks |-> <<>>]
    IN  /\ app.mounted
        /\ Len(app.reads) < MaxReads
        /\ IF RemoteActive
           THEN \E f \in Faults :
                LET r == InsertProject(f, [id |-> newProject.id, name |-> name])
                IN  /\ db' = r.db
                    /\ UNCHANGED localStorage
                    /\ IF r.error # NULL
                       THEN /\ UNCHANGED app
                            /\ ret' = [op |-> "handleProjectSubmit", status |-> "rejected"]
                       ELSE /\ \E v \in ProjectsRead(TRUE, localStorage.data, r.db) :
                                  app' = IssueRead(MarkWrite(app, "addProject"), TRUE, v)
                            /\ ret' = [op |-> "handleProjectSubmit", status |-> "ok"]
           ELSE LET data == readLocalData(localStorage.data).data
                    raw == writeLocalData([data EXCEPT !.projects = Append(@, newProject)])
                IN  /\ localStorage' = [localStorage EXCEPT !.data = raw]
                    /\ UNCHANGED db
                    /\ \E v \in ProjectsRead(FALSE, raw, db) :
                          app' = IssueRead(MarkWrite(app, "addProject"), FALSE, v)
                    /\ ret' = [op |-> "handleProjectSubmit", status |-> "ok"]
        /\ UNCHANGED <<clients, ver, GLOBAL_SUPABASE_URL, GLOBAL_SUPABASE_KEY, supabase, useSupabase,
                       now, subscriptions, pending>>

\* const [removed] = newProjects.splice(draggedIndex, 1);
\* newProjects.splice(targetIndex, 0, removed)
Moved(list, draggedIndex, targetIndex) ==
    LET rest == SubSeq(list, 1, draggedIndex - 1) \o SubSeq(list, draggedIndex + 1, Len(list))
    IN  SubSeq(rest, 1, targetIndex - 1) \o <<list[draggedIndex]>>
        \o SubSeq(rest, targetIndex, Len(rest))

\* handleReorderProjects: setProjects(newProjects); await
\* updateProjects(newProjects), which writes the local record when the flag
\* is off and sends nothing when it is on
handleReorderProjects(draggedId, targetId) ==
    LET draggedIndex == FindIdx(app.projects, draggedId)
        targetIndex == FindIdx(app.projects, targetId)
        newProjects == Moved(app.projects, draggedIndex, targetIndex)
    IN  /\ app.mounted
        /\ draggedId # targetId
        /\ draggedIndex # 0 /\ targetIndex # 0
        /\ app' = [MarkWrite(app, "reorder") EXCEPT !.projects = newProjects]
        /\ localStorage' =
              IF ~useSupabase
              THEN [localStorage EXCEPT !.data =
                       writeLocalData(AssignProjects(readLocalData(localStorage.data).data,
                                                     newProjects))]
              ELSE localStorage
        /\ ret' = [op |-> "handleReorderProjects", val |-> newProjects]
        /\ UNCHANGED <<clients, ver, GLOBAL_SUPABASE_URL, GLOBAL_SUPABASE_KEY, supabase, useSupabase,
                       db, now, subscriptions, pending>>

\* the clock advances between two handlers
AppTick == Tick /\ app.mounted

\* the identifiers of the projects the App shows
ShownIds == {app.projects[i].id : i \in 1..Len(app.projects)}

NextApp ==
    \/ mount
    \/ AppTick
    \/ \E i \in 1..MaxReads : setProjects(i)
    \/ changeNotification
    \/ \E name \in {"A"} :
          Len(app.projects) + Len(app.reads) <= MaxProjects + 3 /\ AddedProjects <= MaxProjects
          /\ handleProjectSubmit(name)
    \/ \E draggedId, targetId \in ShownIds : handleReorderProjects(draggedId, targetId)

SpecApp == InitCrud /\ [][NextApp]_vars

-----------------------------------------------------------------------------
(* Specification SpecAppMode: the mounted App while the settings dialog    *)
(* switches the connection                                                 *)

\* handleSaveSupabase(url, key): initSupabase(url, key); await
\* checkConnectionAndSeed(); await saveRemoteSettings (which reports its
\* errors and resolves); await fetchData().  A rejected
\* checkConnectionAndSeed is reported and nothing is read.  No effect of
\* the component runs again: no subscription is opened or closed.
handleSaveSupabase(url, key) ==
    LET conn == initSupabaseOn([supabase |-> supabase, useSupabase |-> useSupabase,
                                config |-> localStorage.config], url, key)
        remote == conn.useSupabase /\ conn.supabase # NULL
        done(status) == [op |-> "handleSaveSupabase", url |-> url, key |-> key,
                         status |-> status]
    IN  /\ app.mounted
        /\ Len(app.reads) < MaxReads
        /\ supabase' = conn.supabase
        /\ useSupabase' = conn.useSupabase
        /\ subscriptions' = IF assignsHandle(url, key)
                            THEN DetachChannels(subscriptions) ELSE subscriptions
        /\ pending' = IF assignsHandle(url, key) THEN DetachCall(pending) ELSE pending
        /\ IF remote
           THEN /\ localStorage' = [localStorage EXCEPT !.config = conn.config]
                /\ \E f, fp, ft \in Faults :
                      LET answer == ProbeProjects(f)
                          seeded == seedDatabase(fp, ft)
                          stored == IF answer.error = NULL /\ Len(answer.data) = 0
                                    THEN seeded ELSE [error |-> answer.error, db |-> db]
                      IN  /\ db' = stored.db
                          /\ IF stored.error # NULL
                             THEN /\ UNCHANGED app
                                  /\ ret' = done("rejected")
                             ELSE /\ \E v \in ProjectsRead(TRUE, localStorage.data, stored.db) :
                                        app' = IssueRead(IF stored.db = db THEN app
                                                         ELSE MarkWrite(app, "seed"), TRUE, v)
                                  /\ ret' = done("ok")
           ELSE /\ localStorage' = [data |-> readLocalData(localStorage.data).raw,
                                    config |-> conn.config]
                /\ UNCHANGED db
                /\ \E v \in ProjectsRead(FALSE, localStorage.data, db) :
                      app' = IssueRead(app, FALSE, v)
                /\ ret' = done("ok")
        /\ UNCHANGED <<clients, ver, GLOBAL_SUPABASE_URL, GLOBAL_SUPABASE_KEY, now>>

\* the change subscriptions the App holds whose channel is open
LiveSubscriptions == {i \in app.handles : Listening(subscriptions[i])}

NextAppMode ==
    \/ mount
    \/ AppTick
    \/ \E i \in 1..MaxReads : setProjects(i)
    \/ changeNotification
    \/ \E url \in Urls, key \in Keys : Len(app.reads) = 0 /\ handleSaveSupabase(url, key)

SpecAppMode == InitCrud /\ [][NextAppMode]_vars

-----------------------------------------------------------------------------
(* Specification SpecSeed: the browser clients of one backend, each inside *)
(* its own checkConnectionAndSeed call, one request per step               *)

\* client c after a request that the environment failed with `fault`
Stands(c, pc, fault) ==
    [clients EXCEPT ![c] = [pc |-> pc, faulted |-> @.faulted \/ fault # NULL]]

\* .from('tasks').insert(tasks): one statement, all the rows or none
InsertTasks(fault, rows) ==
    IF fault # NULL THEN [error |-> fault, db |-> db]
    ELSE IF ~db.provisioned THEN [error |-> UndefinedTable, db |-> db]
    ELSE IF \E r \in db.tasks, row \in rows : r.id = row.id
         THEN [error |-> UniqueViolation, db |-> db]
    ELSE IF \E row \in rows : ~\E r \in db.projects : r.id = row.project_id
         THEN [error |-> ForeignKeyViolation, db |-> db]
    ELSE [error |-> NULL, db |-> [db EXCEPT !.tasks = @ \cup rows]]

\* checkConnectionAndSeed up to its first await: returns when the mode is
\* local, else select('id').limit(1); an error is thrown, an empty answer
\* leads into seedDatabase
probe(c) ==
    /\ clients[c].pc = "idle"
    /\ IF ~RemoteActive
       THEN clients' = Stands(c, "resolved", NULL)
       ELSE \E f \in Faults :
            LET answer == ProbeProjects(f)
            IN  clients' = Stands(c, IF answer.error # NULL THEN "rejected"
                                     ELSE IF Len(answer.data) = 0 THEN "insertProject"
                                     ELSE "resolved", f)
    /\ ret' = [op |-> "checkConnectionAndSeed", client |-> c, step |-> "probe"]
    /\ UNCHANGED <<app, ver, GLOBAL_SUPABASE_URL, GLOBAL_SUPABASE_KEY, localStorage, supabase,
                   useSupabase, db, now, subscriptions, pending>>

\* seedDatabase: insert(p1); if (pError) throw pError
insertProject(c) ==
    /\ clients[c].pc = "insertProject"
    /\ \E f \in Faults :
          LET r == InsertProject(f, seedProjectRow)
          IN  /\ db' = r.db
              /\ clients' = Stands(c, IF r.error # NULL THEN "rejected" ELSE "insertTasks", f)
              /\ ret' = [op |-> "checkConnectionAndSeed", client |-> c,
                         step |-> "insertProject", error |-> r.error]
    /\ UNCHANGED <<app, ver, GLOBAL_SUPABASE_URL, GLOBAL_SUPABASE_KEY, localStorage, supabase,
                   useSupabase, now, subscriptions, pending>>

\* seedDatabase: insert(tasks); if (tError) throw tError
insertTasks(c) ==
    /\ clients[c].pc = "insertTasks"
    /\ \E f \in Faults :
          LET r == InsertTasks(f, seedTaskRows)
          IN  /\ db' = r.db
              /\ clients' = Stands(c, IF r.error # NULL THEN "rejected" ELSE "resolved", f)
              /\ ret' = [op |-> "checkConnectionAndSeed", client |-> c,
                         step |-> "insertTasks", error |-> r.error]
    /\ UNCHANGED <<app, ver, GLOBAL_SUPABASE_URL, GLOBAL_SUPABASE_KEY, localStorage, supabase,
                   useSupabase, now, subscriptions, pending>>

NextSeed ==
    \/ Tick
    \/ \E c \in Clients : probe(c)
    \/ \E c \in Clients : insertProject(c)
    \/ \E c \in Clients : insertTasks(c)

SpecSeed == InitCrud /\ [][NextSeed]_vars

-----------------------------------------------------------------------------
(* Properties *)

\* C1: in apiService.ts a local read with no stored record returns the seed
\* dataset (at least one project holding at least one task) and leaves it
\* persisted, so that reading the persisted record again yields the identical
\* dataset and writes nothing; and two local getProjects in a row, with no
\* write in between, return the same projects.
C1_SeedOnEmpty ==
    [][ /\ (localStorage.data = Absent /\ ret'.op = "getProjects" /\ ~ret'.remote) =>
            /\ ret'.status = "ok"
            /\ ret'.val = getInitialData.projects
            /\ Len(ret'.val) >= 1
            /\ Len(ret'.val[1].tasks) >= 1
            /\ localStorage'.data.kind = "json"
            /\ readLocalData_api(localStorage'.data)
                 = [data |-> getInitialData, raw |-> localStorage'.data]
        /\ (ret.op = "getProjects" /\ ~ret.remote /\ ret'.op = "getProjects" /\ ~ret'.remote) =>
            ret'.val = ret.val
      ]_vars

\* a local getProjects has returned the seed and the seed is what is stored
C1_Witness ==
    /\ ret.op = "getProjects"
    /\ ~ret.remote
    /\ ret.val = getInitialData.projects
    /\ localStorage.data = writeLocalData(getInitialData)

GlobalPair == GLOBAL_SUPABASE_URL # "" /\ GLOBAL_SUPABASE_KEY # ""

EmptyInit == ret.op = "initSupabase" /\ ret.url = "" /\ ret.key = ""

\* C2 as claimed: after initSupabase("", "") following a successful
\* connection remote mode is off, whether or not a compiled-in configuration
\* is present.
C2_Original ==
    (EmptyInit /\ ret.wasEnabled) => ~isSupabaseEnabled

\* C2 (amended): initSupabase("", "") deactivates remote mode and clears the
\* handle unless both a compiled-in URL and key are present; the persisted
\* configuration is removed exactly when there is no compiled-in URL; while
\* remote mode is off every getProjects resolves with the local backend's
\* current contents.  With a compiled-in URL and key, initSupabase("", "")
\* instead connects to the compiled-in target and remote mode is on.
C2_EmptyInitDeactivates ==
    /\ (EmptyInit /\ ~GlobalPair) =>
          /\ ~isSupabaseEnabled
          /\ supabase = NULL
          /\ (GLOBAL_SUPABASE_URL = "" => localStorage.config = Absent)
    /\ (EmptyInit /\ GlobalPair) =>
          /\ isSupabaseEnabled
          /\ supabase = Client(GLOBAL_SUPABASE_URL, GLOBAL_SUPABASE_KEY)
    /\ (ret.op = "getProjects" /\ ~isSupabaseEnabled) =>
          /\ ret.status = "ok"
          /\ ~ret.remote
          /\ ret.val = readLocalData_api(localStorage.data).data.projects

\* initSupabase("", "") was called while connected, without a compiled-in
\* configuration, and a persisted configuration has been removed
C2_Witness ==
    /\ EmptyInit
    /\ ret.wasEnabled
    /\ ~GlobalPair
    /\ ~isSupabaseEnabled
    /\ localStorage.config = Absent

\* the projects / task rows the active backend holds under a project id
RemoteHolds(dbv, projectId) ==
    \/ \E r \in dbv.projects : r.id = projectId
    \/ \E t \in dbv.tasks : t.project_id = projectId

LocalHolds(raw, projectId) ==
    /\ raw.kind = "json"
    /\ "projects" \in DOMAIN raw.val
    /\ \E i \in 1..Len(raw.val.projects) : raw.val.projects[i].id = projectId

\* C3: after a successful deleteProject(P), in either mode, the active
\* backend holds neither P nor any task under P (remotely by the foreign
\* key's on-delete-cascade rule), and a getProjects that follows resolves
\* without P and its tasks.
C3_DeleteProjectCascades ==
    [][ /\ (ret'.op = "deleteProject" /\ ret'.status = "ok") =>
            IF ret'.remote THEN ~RemoteHolds(db', ret'.id)
            ELSE ~LocalHolds(localStorage'.data, ret'.id)
        /\ (ret.op = "deleteProject" /\ ret.status = "ok"
              /\ ret'.op = "getProjects" /\ ret'.status = "ok") =>
            \A i \in 1..Len(ret'.val) : ret'.val[i].id # ret.id
      ]_vars

\* a remote deleteProject succeeded on a project that owned tasks
C3_Witness ==
    /\ ret.op = "deleteProject"
    /\ ret.status = "ok"
    /\ ret.remote
    /\ ret.owned > 0

\* the members of a stored task that a progress-only patch must leave alone
LocalFrameOf(t) ==
    [name |-> t.name, startDate |-> t.startDate, endDate |-> t.endDate,
     employeeId |-> t.employeeId,
     description |-> IF "description" \in DOMAIN t THEN t.description ELSE UNDEF]

RemoteFrameOf(r) ==
    [name |-> r.name, start_date |-> r.start_date, end_date |-> r.end_date,
     employee_id |-> r.employee_id, description |-> r.description]

LocalFrames(raw) ==
    IF raw.kind = "json" /\ "projects" \in DOMAIN raw.val
    THEN [i \in 1..Len(raw.val.projects) |->
            [j \in 1..Len(raw.val.projects[i].tasks) |->
                LocalFrameOf(raw.val.projects[i].tasks[j])]]
    ELSE <<>>

StoredEmployees == OrgList("employees")

\* C4: in local mode of part_000 and part_002, once deleteDepartment(D) has
\* resolved, the stored employee list holds no employee whose departmentId
\* is D (and no department D is stored).
C4_DeleteDepartmentCascades ==
    (ret.op = "deleteDepartment" /\ ~ret.remote /\ ret.status = "ok") =>
        /\ \A i \in 1..Len(StoredEmployees) : StoredEmployees[i].departmentId # ret.id
        /\ \A i \in 1..Len(OrgList("departments")) : OrgList("departments")[i].id # ret.id

\* C4 for part_000 alone, where the employees are filtered
C4_CascadesInPart000 ==
    ver = "p000" => C4_DeleteDepartmentCascades

\* a local deleteDepartment of part_000 has removed a department that had
\* employees
C4_Part000Witness ==
    /\ ver = "p000"
    /\ ret.op = "deleteDepartment" /\ ~ret.remote /\ ret.status = "ok"
    /\ ret.id = Id("d", 1, 0)
    /\ Len(StoredEmployees) = 3

\* C5: in local mode of part_000, for every department that getDepartments
\* returns, its employees list is exactly the employees that getEmployees
\* returns whose departmentId is that department's id.
C5_MaterializedEmployees ==
    (ver = "p000" /\ ret.op = "getDepartments" /\ ~ret.remote /\ ret.status = "ok") =>
        \A i \in 1..Len(ret.val) :
            Range(ret.val[i].employees)
              = {e \in Range(StoredEmployees) : e.departmentId = ret.val[i].id}

\* the error of a query that orders by a position column the table lacks
MissingPosition == UndefinedColumn("position")

\* the requests of a getProjects that went to the given table
TraceOf(table) == SelectSeq(ret.trace, LAMBDA x : x.q[1] = table)

ProjectRow(id) == CHOOSE r \in db.projects : r.id = id

C8_FallbackOnlyForPosition ==
    (ver = "p002" /\ ret.op = "getProjects" /\ ret.remote) =>
        \A i \in 1..Len(ret.trace) :
            ( /\ ret.trace[i].q[2] = "position"
              /\ ret.trace[i].error \notin {NULL, MissingPosition} ) =>
                /\ ret.status = "rejected"
                /\ ret.error = ret.trace[i].error
                /\ i = Len(ret.trace)

\* C9: in part_002 a remote updateProjects / updateTaskPositions whose upsert
\* fails resolves when the failure is a missing position column and rejects
\* with the error for every other failure.
C9_ReorderUpsertOutcome ==
    ( /\ ver = "p002" /\ ret.op \in {"updateProjects", "updateTaskPositions"}
      /\ ret.remote /\ ret.upsert # NULL ) =>
        IF ret.upsert \in {UnknownColumn("position"), MissingPosition}
        THEN ret.status = "ok"
        ELSE ret.status = "rejected" /\ ret.error = ret.upsert

\* C10: in apiService.ts and part_002, when the probe of checkConnectionAndSeed
\* fails, the operation rejects: with TABLES_MISSING exactly when the backend
\* reported an undefined table (42P01), with the original error otherwise.
C10_ProbeFailureRejects ==
    (ret.op = "checkConnectionAndSeed" /\ ret.remote /\ ret.probe # NULL) =>
        /\ ret.status = "rejected"
        /\ ret.error = IF ret.probe.code = "42P01" THEN TablesMissing ELSE ret.probe

\* C10 for apiService.ts alone
C10_InApiService ==
    ver = "api" => C10_ProbeFailureRejects

\* checkConnectionAndSeed of apiService.ts has rejected a probe that failed
\* for another reason than a missing table
C10_ApiWitness ==
    /\ ver = "api" /\ ret.op = "checkConnectionAndSeed" /\ ret.remote
    /\ ret.probe = PermissionDenied /\ ret.status = "rejected"

\* the stored dataset as a local read of apiService.ts returns it
StoredDataset(raw) == readLocalData_api(raw).data

AbsentProject(raw, projectId) ==
    \A i \in 1..Len(StoredDataset(raw).projects) :
        StoredDataset(raw).projects[i].id # projectId

AbsentTask(raw, projectId, taskId) ==
    \A i \in 1..Len(StoredDataset(raw).projects) :
        StoredDataset(raw).projects[i].id = projectId =>
            \A j \in 1..Len(StoredDataset(raw).projects[i].tasks) :
                StoredDataset(raw).projects[i].tasks[j].id # taskId

\* C11: in local mode of apiService.ts, updateProject on a project id that is
\* not stored and updateTask on a project / task id that is not stored reject
\* with an explicit error, and the failed call leaves the stored dataset as it
\* was: a read returns the same dataset before and after, and a record that
\* was stored is not rewritten.
C11_AbsentTargetRejected ==
    [][ ( \/ /\ ret'.op = "updateProject" /\ ~ret'.remote
              /\ AbsentProject(localStorage.data, ret'.id)
          \/ /\ ret'.op = "updateTask" /\ ~ret'.remote
              /\ AbsentTask(localStorage.data, ret'.projectId, ret'.taskId) ) =>
            /\ ret'.status = "rejected"
            /\ ret'.error \in {"Project not found", "Task not found"}
            /\ StoredDataset(localStorage'.data) = StoredDataset(localStorage.data)
            /\ localStorage.data.kind = "json" => localStorage'.data = localStorage.data
      ]_vars

\* a local updateTask on a task that the stored project does not hold has
\* been rejected
C11_Witness ==
    /\ ret.op = "updateTask" /\ ~ret.remote /\ ret.status = "rejected"
    /\ ret.projectId = Id("p", 1, 0) /\ ret.taskId = Id("task", 0, 0)
    /\ localStorage.data.kind = "json"

\* C12: in local mode of apiService.ts, deleteProject on a project id that is
\* not stored, and deleteTask on a project or task id that is not stored,
\* reject with an explicit error.
C12_AbsentDeleteRejected ==
    [][ ( \/ /\ ret'.op = "deleteProject" /\ ~ret'.remote
              /\ AbsentProject(localStorage.data, ret'.id)
          \/ /\ ret'.op = "deleteTask" /\ ~ret'.remote
              /\ AbsentTask(localStorage.data, ret'.projectId, ret'.taskId) ) =>
            ret'.status = "rejected"
      ]_vars

\* C13: in apiService.ts a local read of a record that is malformed JSON is
\* treated as a read with no record: it returns the seed dataset and leaves
\* the seed persisted, so the stored record after the read is the same in
\* both cases.
C13_MalformedAsAbsent ==
    [][ ( /\ ret'.op = "getProjects" /\ ~ret'.remote
          /\ localStorage.data \in {Absent, Malformed} ) =>
            /\ ret'.status = "ok"
            /\ ret'.val = getInitialData.projects
            /\ localStorage'.data = writeLocalData(getInitialData)
      ]_vars

\* C13 for the read with no record alone
C13_AbsentPersistsSeed ==
    [][ ( /\ ret'.op = "getProjects" /\ ~ret'.remote
          /\ localStorage.data = Absent ) =>
            /\ ret'.val = getInitialData.projects
            /\ localStorage'.data = writeLocalData(getInitialData)
      ]_vars

\* C14: in local mode of part_002, getProjects never rejects and resolves
\* with an array of projects each of which has a tasks array, whatever the
\* stored record: absent, malformed JSON, valid JSON without a projects
\* array, or a project without a tasks array.
C14_LocalReadAlwaysValid ==
    (ver = "p002" /\ ret.op = "getProjects" /\ ~ret.remote) =>
        /\ ret.status = "ok"
        /\ ret.isArray
        /\ \A i \in 1..Len(ret.val) : "tasks" \in DOMAIN ret.val[i]

\* the same for part_000, whose readLocalData validates the record
C14_ValidInPart000 ==
    (ver = "p000" /\ ret.op = "getProjects" /\ ~ret.remote) =>
        /\ ret.status = "ok"
        /\ \A i \in 1..Len(ret.val) : "tasks" \in DOMAIN ret.val[i]

\* C15: after initSupabase returns (client constructed, construction
\* failed, or empty inputs), the remote-mode flag is true exactly when a
\* client handle is present.
C15_FlagIffHandle ==
    ret.op = "initSupabase" => (useSupabase <=> supabase # NULL)

\* one direction holds: an active flag always comes with a handle
C15_FlagImpliesHandle == useSupabase => supabase # NULL

ConstructionFailed ==
    /\ ret.op = "initSupabase"
    /\ targetUrl(ret.url) # "" /\ targetKey(ret.key) # ""
    /\ createClientThrows(targetUrl(ret.url), targetKey(ret.key))

\* C17: initSupabase with non-empty inputs whose client construction fails
\* leaves remote mode off and the persisted configuration cleared (unless a
\* compiled-in target exists), exactly as a call with empty inputs does.
C17_FailureClearsConfig ==
    ConstructionFailed =>
        /\ ~useSupabase
        /\ GLOBAL_SUPABASE_URL = "" => localStorage.config = Absent

\* the half about the flag holds
C17_FailureDeactivates == ConstructionFailed => ~useSupabase

\* C16: a remote getProjects call that is in flight while initSupabase
\* reconfigures the connection sends every one of its requests to the
\* handle that was current when the call started.
C16_InFlightKeepsHandle ==
    (ret.op = "getProjects" /\ "sameHandle" \in DOMAIN ret) => ret.sameHandle

\* without a reconfiguration in between, every request goes to that handle
C16_QuietCallKeepsHandle ==
    (pending # NULL /\ pending.attached) => pending.sameHandle

\* C18: the unsubscribe function returned by subscribeToChanges releases
\* the channel on the client that opened it, also after initSupabase has
\* replaced or cleared the handle.
C18_UnsubscribeReleases ==
    [][ (ret'.op = "unsubscribe" /\ subscriptions[ret'.sub].channel # NULL) =>
            ~subscriptions'[ret'.sub].channel.open ]_vars

\* it does while the handle still is the client that opened the channel
C18_ReleasesWhileAttached ==
    [][ (/\ ret'.op = "unsubscribe"
         /\ subscriptions[ret'.sub].channel # NULL
         /\ subscriptions[ret'.sub].channel.attached) =>
            ~subscriptions'[ret'.sub].channel.open ]_vars

\* C19: while remote mode is inactive, subscribeToChanges opens no channel,
\* the callback of such a subscription is never invoked, and calling the
\* returned unsubscribe function has no effect.
C19_InactiveSubscriptionInert ==
    [][ /\ (ret'.op = "subscribeToChanges" /\ ~isSupabaseEnabled /\ ret' # ret) =>
               /\ subscriptions'[ret'.sub].channel = NULL
               /\ UNCHANGED <<supabase, useSupabase, localStorage, db>>
        /\ \A i \in 1..Len(subscriptions') :
               subscriptions'[i].channel = NULL => subscriptions'[i].calls = 0
        /\ (/\ ret'.op = "unsubscribe" /\ ret' # ret
            /\ subscriptions[ret'.sub].channel = NULL) =>
               UNCHANGED <<subscriptions, supabase, useSupabase, localStorage, db, pending>>
      ]_vars

\* an inert subscription taken while inactive is unsubscribed after the
\* connection was configured, another subscription was opened and received
\* an event
C19_Witness ==
    /\ ret.op = "unsubscribe" /\ ret.sub = 1
    /\ Len(subscriptions) = 2
    /\ subscriptions[1].channel = NULL
    /\ Listening(subscriptions[2]) /\ subscriptions[2].calls > 0

\* C20: when a compiled-in target is present, every client constructed by
\* initSupabase or initSupabaseFromUrl targets the compiled-in value
\* (apiService.ts and part_002).
C20_CompiledInTargetWins ==
    (GlobalPair /\ supabase # NULL) =>
        /\ supabase.url = GLOBAL_SUPABASE_URL
        /\ supabase.key = GLOBAL_SUPABASE_KEY

\* it does in apiService.ts
C20_InApiService == ver = "api" => C20_CompiledInTargetWins

\* C21: in part_002 two addTask calls issued within one clock reading get
\* distinct identifiers, so no two stored tasks share an identifier.
C21_TaskIdsDistinct ==
    ver = "p002" =>
        /\ \A a, b \in CreatedLocalTasks :
               a # b => LocalTaskIds[a[1]][a[2]] # LocalTaskIds[b[1]][b[2]]
        /\ \A q, r \in db.tasks : q.id = r.id => q = r

\* remotely the second of two such calls is rejected by the primary key
C21_RemoteSecondCreateRejected ==
    [][ (/\ ver = "p002" /\ ret'.op = "addTask" /\ ret'.remote /\ ret' # ret
         /\ \E r \in db.tasks : r.id = Id("task", now, 0)) =>
            ret'.status = "rejected" ]_vars

\* C22: after any sequence of local addProject calls under a non-decreasing
\* clock, no two stored projects share an identifier.
C22_ProjectIdsDistinct ==
    (ver = "api" /\ ~RemoteActive) =>
        \A i, j \in 1..Len(LocalProjects) :
            i # j => LocalProjects[i].id # LocalProjects[j].id

\* the six patch fields updateTask looks at, and the column of each
PatchFields == {"name", "startDate", "endDate", "employeeId", "progress", "description"}

ColumnOf(f) ==
    CASE f = "startDate" -> "start_date"
      [] f = "endDate" -> "end_date"
      [] f = "employeeId" -> "employee_id"
      [] OTHER -> f

RemoteUpdateDone == ret.op = "updateTask" /\ ret.remote /\ ret.status = "ok"

\* C23: in remote mode the set of columns updateTask sends equals the set
\* of fields present in the patch among name, startDate, endDate,
\* employeeId, progress and description; a patch whose description is the
\* empty string sends description as the empty string.
C23_SentColumnsMatchPatch ==
    RemoteUpdateDone =>
        /\ ret.sent = {ColumnOf(f) : f \in DOMAIN ret.patch \cap PatchFields}
        /\ ("description" \in DOMAIN ret.patch /\ ret.patch.description = "") =>
               "description" \in ret.sent

\* nothing but fields of the patch is sent, and an empty description is sent
C23_SentWithinPatch ==
    RemoteUpdateDone =>
        /\ ret.sent \subseteq {ColumnOf(f) : f \in DOMAIN ret.patch \cap PatchFields}
        /\ ("description" \in DOMAIN ret.patch /\ ret.patch.description = "") =>
               /\ "description" \in ret.sent
               /\ \A r \in db.tasks : r.id = ret.taskId => r.description = ""

\* C24: once addTask has created a task its color never changes, whatever
\* patch updateTask is given later (a patch with a color field included),
\* in local mode and in remote mode.
C24_ColorImmutable ==
    [][ /\ \A x \in CreatedLocalTasks :
              (x \in CreatedLocalTasks' /\ LocalTaskIds'[x[1]][x[2]] = LocalTaskIds[x[1]][x[2]]) =>
                  LocalProjects'[x[1]].tasks[x[2]].color = LocalProjects[x[1]].tasks[x[2]].color
        /\ \A r \in db.tasks : \A q \in db'.tasks : q.id = r.id => q.color = r.color
      ]_vars

\* it holds in the tasks table, which updateTask never sends a color to
C24_RemoteColorKept ==
    [][ \A r \in db.tasks : \A q \in db'.tasks : q.id = r.id => q.color = r.color ]_vars

\* C25: every stored task has endDate >= startDate after any sequence of
\* addTask and updateTask calls, patches that change one of the two dates
\* only included.
C25_EndNotBeforeStart ==
    /\ \A x \in CreatedLocalTasks :
           LocalProjects[x[1]].tasks[x[2]].endDate.ms >= LocalProjects[x[1]].tasks[x[2]].startDate.ms
    /\ \A r \in db.tasks : r.end_date.day >= r.start_date.day

\* addTask alone stores the dates it is given, in their order
C25_HoldsAtCreation ==
    [][ (ret'.op = "addTask" /\ ret'.status = "ok" /\ ret' # ret /\ C25_EndNotBeforeStart) =>
            C25_EndNotBeforeStart' ]_vars

\* C26: in local mode, after any sequence of updateProjects calls the
\* stored project array equals the argument of the last call: the same
\* projects in the same order, whatever the earlier calls' orders were.
C26_LastOrderStored ==
    (ret.op = "updateProjects" /\ ~useSupabase) =>
        StoredDataset(localStorage.data).projects = ret.val

\* two calls in a row with different orders of two projects
C26_Witness ==
    /\ ret.op = "updateProjects" /\ ~useSupabase
    /\ Len(ret.val) = 2 /\ Len(ret.prev) = 2
    /\ ret.prev # ret.val

\* a local addTask for the project that the call before, a local
\* addProject, returned
TaskForNewProject ==
    /\ ret.op = "addProject" /\ ret.status = "ok" /\ ~ret.remote
    /\ ret'.op = "addTask" /\ ret' # ret /\ ~ret'.remote
    /\ ret'.projectId = ret.val.id

\* what the next getProjects returns for the identifier: the project has
\* exactly one task, with progress 0, a color, and its dates in order
ReadBackOneTask(projects, projectId) ==
    /\ \E i \in 1..Len(projects) : projects[i].id = projectId
    /\ \A i \in 1..Len(projects) :
          projects[i].id = projectId =>
              /\ Len(projects[i].tasks) = 1
              /\ projects[i].tasks[1].progress = 0
              /\ projects[i].tasks[1].color # ""
              /\ projects[i].tasks[1].endDate.ms >= projects[i].tasks[1].startDate.ms

\* C27: in local mode, for a project P just returned by addProject, one
\* addTask(P.id, data) with data.endDate >= data.startDate makes the next
\* getProjects return P with exactly one task, whose progress is 0, whose
\* color is non-empty and whose endDate >= startDate.
C27_NewProjectReadBack ==
    [][ TaskForNewProject =>
            /\ ret'.status = "ok"
            /\ ReadBackOneTask(StoredDataset(localStorage'.data).projects, ret.val.id)
      ]_vars

\* it does when no other stored project has the identifier of P
C27_HoldsForFreshId ==
    [][ (/\ TaskForNewProject
         /\ Cardinality({i \in 1..Len(LocalProjects) : LocalProjects[i].id = ret.val.id}) = 1) =>
            /\ ret'.status = "ok"
            /\ ReadBackOneTask(StoredDataset(localStorage'.data).projects, ret.val.id)
      ]_vars

\* a task without its undefined members (t.description === undefined
\* whether the member is missing or holds undefined)
DefinedMembers(t) ==
    [f \in {g \in DOMAIN t : ~(g = "description" /\ t[g] = UNDEF)} |-> t[f]]

\* a dataset compared by value: dates as date values, undefined members as
\* missing ones
ByValue(data) ==
    [data EXCEPT !.projects =
        [i \in 1..Len(data.projects) |->
            [data.projects[i] EXCEPT !.tasks =
                [j \in 1..Len(data.projects[i].tasks) |->
                    DefinedMembers(data.projects[i].tasks[j])]]]]

\* C28: writing a well-formed dataset to the local backend and reading it
\* back yields an equal dataset: the same projects, tasks, departments and
\* employees in the same order, the task dates equal as date values.
C28_RoundTrip ==
    ret.op = "roundTrip" =>
        /\ ByValue(ret.read) = ByValue(ret.written)
        /\ ByValue(StoredDataset(localStorage.data)) = ByValue(ret.written)
        /\ \A i \in 1..Len(ret.read.projects) : \A j \in 1..Len(ret.read.projects[i].tasks) :
               ret.read.projects[i].tasks[j].startDate.t = "Date"

\* two projects were written, one with a task that starts inside a day and
\* has an undefined description, one with no task
C28_Witness ==
    /\ ret.op = "roundTrip"
    /\ Len(ret.written.projects) = 2
    /\ ret.written.projects[1].tasks # <<>>
    /\ ret.written.projects[1].tasks[1].startDate = Date(1)
    /\ ret.written.projects[1].tasks[1].description = UNDEF
    /\ ret.written.projects[2].tasks = <<>>
    /\ ret.written.departments # <<>>

\* the writes of the facade that address one project or one task
WriteOps == {"addProject", "updateProject", "deleteProject",
             "addTask", "updateTask", "deleteTask"}

\* C29: in remote mode each of addProject, updateProject, deleteProject,
\* addTask, updateTask and deleteTask issues its request exactly once; when
\* the response carries an error the call rejects with that error, nothing
\* is sent again (the backend is as it was) and no entity is resolved.
C29_SingleAttempt ==
    [][ (RemoteActive /\ ret'.op \in WriteOps) =>
          /\ "requests" \in DOMAIN ret'
          /\ Len(ret'.requests) = 1
          /\ ret'.requests[1].error = NULL => ret'.status = "ok"
          /\ ret'.requests[1].error # NULL =>
                /\ ret'.status = "rejected"
                /\ ret'.error = ret'.requests[1].error
                /\ "val" \notin DOMAIN ret'
                /\ db' = db ]_vars

\* a remote addTask for a project the backend does not hold was rejected
\* with the backend's foreign-key error after its one request
C29_Witness ==
    /\ ret.op = "addTask"
    /\ ret.remote
    /\ ret.status = "rejected"
    /\ Len(ret.requests) = 1
    /\ ret.error = ForeignKeyViolation

\* everything stored in P is stored in Q at the same place
Keeps(P, Q) ==
    /\ Len(Q) >= Len(P)
    /\ \A i \in 1..Len(P) :
          /\ Q[i].id = P[i].id
          /\ Q[i].name = P[i].name
          /\ Len(Q[i].tasks) >= Len(P[i].tasks)
          /\ \A j \in 1..Len(P[i].tasks) : Q[i].tasks[j] = P[i].tasks[j]

\* the entity a resolved addProject / addTask returned is stored in P
Holds(P, op, val) ==
    IF op = "addProject"
    THEN \E i \in 1..Len(P) : P[i].id = val.id /\ P[i].name = val.name
    ELSE \E i \in 1..Len(P) : \E j \in 1..Len(P[i].tasks) : P[i].tasks[j] = val

RECURSIVE TaskTotal(_)
TaskTotal(P) == IF P = <<>> THEN 0 ELSE Len(Head(P).tasks) + TaskTotal(Tail(P))

ResolvedLocalAdd(r) ==
    /\ r.op \in {"addProject", "addTask"}
    /\ r.status = "ok"
    /\ ~r.remote

\* C30: a local write reads, changes and writes the stored dataset inside
\* the call that issues it, so of two local writes issued one right after the
\* other (the second before the first is awaited) neither is lost: the second
\* keeps everything that was stored, the entity of the first included, and
\* adds exactly its own.
C30_NeitherWriteLost ==
    [][ (now' = now /\ ResolvedLocalAdd(ret')) =>
          LET P == StoredDataset(localStorage.data).projects
              Q == StoredDataset(localStorage'.data).projects
          IN  /\ Keeps(P, Q)
              /\ Holds(Q, ret'.op, ret'.val)
              /\ Len(Q) + TaskTotal(Q) = Len(P) + TaskTotal(P) + 1
              /\ ResolvedLocalAdd(ret) => Holds(Q, ret.op, ret.val) ]_vars

\* two addProject calls issued within one millisecond (they share the
\* identifier), followed by an addTask: all three are stored
C30_Witness ==
    /\ ResolvedLocalAdd(ret)
    /\ ret.op = "addTask"
    /\ LET P == StoredDataset(localStorage.data).projects
       IN  /\ \E i, j \in 1..Len(P) :
                 i < j /\ P[i].name = "A" /\ P[j].name = "B" /\ P[i].id = P[j].id
           /\ Holds(P, "addTask", ret.val)

\* the identifiers of a list of projects, in its order
IdsOf(projects) == [i \in 1..Len(projects) |-> projects[i].id]

\* a remote updateProjects of part_002 has just resolved against a backend
\* with the position column, and the step is the getProjects that follows it
ReadAfterReorder ==
    /\ ver = "p002"
    /\ ret.op = "updateProjects"
    /\ ret.status = "ok"
    /\ ret.remote
    /\ "position" \in db.projCols
    /\ ret'.op = "getProjects"
    /\ ret'.status = "ok"

\* C31: in part_002, after a remote updateProjects(L) has resolved against a
\* backend with the position column, L holding every project, the getProjects
\* that follows with no write in between returns the projects in the order
\* of L.
C31_ReadFollowsReorder ==
    [][ ReadAfterReorder => IdsOf(ret'.val) = IdsOf(ret.val) ]_vars

\* the order is the one read back whenever the upsert was served
C31_HoldsWhenUpsertServed ==
    [][ (ReadAfterReorder /\ ret.upsert = NULL) => IdsOf(ret'.val) = IdsOf(ret.val) ]_vars

\* the project and task operations of the facade
FacadeOps == {"getProjects", "updateProjects"} \cup WriteOps

\* what the call that produced an outcome went to
TouchedRemote(r) == "requests" \in DOMAIN r /\ r.requests # <<>>
TouchedLocal(r) == "local" \in DOMAIN r

\* the step is a call of one of the operations of apiService.ts
FacadeCall == ver = "api" /\ now' = now /\ ret'.op \in FacadeOps

\* C32: every project/task operation touches exactly one backend, the one
\* the mode selects when the call is made: in remote mode it sends a request
\* and neither reads nor writes the local dataset, in local mode it goes
\* through the local dataset and sends no request.
C32_TouchesOneBackend ==
    [][ FacadeCall =>
          IF RemoteActive
          THEN /\ TouchedRemote(ret')
               /\ ~TouchedLocal(ret')
               /\ localStorage'.data = localStorage.data
          ELSE /\ TouchedLocal(ret')
               /\ ~TouchedRemote(ret')
               /\ db' = db ]_vars

\* no call touches the backend the mode did not select
C32_NeverTheOtherBackend ==
    [][ FacadeCall =>
          IF RemoteActive
          THEN ~TouchedLocal(ret') /\ localStorage'.data = localStorage.data
          ELSE ~TouchedRemote(ret') /\ db' = db ]_vars

\* the members of a Task
TaskFields == {"id", "name", "startDate", "endDate", "color", "employeeId", "progress"}

\* the number of tasks the backend in use holds under a project (given the
\* stored record and the tasks table to look at)
TasksHeld(raw, tasks, projectId) ==
    IF RemoteActive THEN Cardinality({t \in tasks : t.project_id = projectId})
    ELSE LET P == StoredDataset(raw).projects
             pi == FindIdx(P, projectId)
         IN  IF pi = 0 THEN 0 ELSE Len(P[pi].tasks)

\* the step is an updateProject / updateTask of apiService.ts that resolved
\* for a project / task the backend in use holds
ResolvedUpdate ==
    /\ ver = "api"
    /\ now' = now
    /\ ret'.status = "ok"
    /\ \/ /\ ret'.op = "updateProject"
          /\ RemoteActive => \E r \in db.projects : r.id = ret'.id
       \/ /\ ret'.op = "updateTask"
          /\ RemoteActive => \E r \in db.tasks : r.id = ret'.taskId

\* the value is the whole entity as the backend holds it after the update
FullEntity ==
    IF ret'.op = "updateProject"
    THEN /\ "tasks" \in DOMAIN ret'.val
         /\ Len(ret'.val.tasks) = TasksHeld(localStorage'.data, db'.tasks, ret'.id)
    ELSE TaskFields \subseteq DOMAIN ret'.val

\* C33: an operation resolves with the same value in local and in remote
\* mode for the same arguments and equivalent contents; updateProject and
\* updateTask resolve with the full updated entity (every member, for a
\* project its tasks) in both modes.
C33_UpdateResolvesFullEntity ==
    [][ ResolvedUpdate => FullEntity ]_vars

\* the local branches do resolve with the whole stored entity
C33_LocalResolvesFullEntity ==
    [][ (ResolvedUpdate /\ ~RemoteActive) => FullEntity ]_vars

\* the step is the completion of a read that was issued after the last write
FreshReadCompletes ==
    /\ ret'.op = "setProjects"
    /\ Len(app'.reads) < Len(app.reads)
    /\ ~ret'.stale

\* C34: in remote mode, after handleReorderProjects has moved a project, the
\* order in memory is still the new one after the next refetch (no other
\* client having changed the order).
C34_ReorderSurvivesRefetch ==
    [][ (RemoteActive /\ app.lastWrite = "reorder" /\ FreshReadCompletes) =>
            IdsOf(app'.projects) = IdsOf(app.projects) ]_vars

\* in local mode the refetch after a later write keeps the new order
C34_LocalReorderSurvives ==
    [][ (~RemoteActive /\ app.lastWrite = "reorder" /\ ret'.op = "handleProjectSubmit"
         /\ ret'.status = "ok") =>
            SubSeq(IdsOf(app'.projects), 1, Len(app.projects)) = IdsOf(app.projects) ]_vars

\* the project list in memory is the one the backend in use holds
InMemoryIsStored ==
    IF RemoteActive
    THEN /\ Len(app.projects) = Cardinality(db.projects)
         /\ {[id |-> app.projects[i].id, name |-> app.projects[i].name] :
                i \in 1..Len(app.projects)}
            = {[id |-> r.id, name |-> r.name] : r \in db.projects}
    ELSE app.projects = StoredDataset(localStorage.data).projects

\* no write since the last read was issued, and no read in flight
Quiescent == app.mounted /\ app.fresh /\ app.reads = <<>>

\* C35: once no further write occurs and every issued read has completed, the
\* project list in memory equals the contents of the backend in use, whatever
\* the order in which the reads completed.
C35_QuiescentListIsStored == Quiescent => InMemoryIsStored

\* it does whenever the read that completed last was issued after the last write
C35_HoldsWhenFreshReadIsLast ==
    (Quiescent /\ ret.op = "setProjects" /\ ~ret.stale) => InMemoryIsStored


\* every client has left checkConnectionAndSeed and the environment failed
\* none of the requests
SeedersDone ==
    \A c \in Clients : clients[c].pc \in {"resolved", "rejected"} /\ ~clients[c].faulted

\* the remote backend holds the seed project and its tasks
SeedStored ==
    /\ \E r \in db.projects : r.id = seedProjectRow.id
    /\ seedTaskRows \subseteq db.tasks

\* C36: clients that run checkConnectionAndSeed against the same empty
\* remote backend all resolve without error, and the seed project and its
\* tasks are stored
C36_BothSeedersResolve ==
    (RemoteActive /\ SeedersDone) =>
        /\ \A c \in Clients : clients[c].pc = "resolved"
        /\ SeedStored

\* C36, what holds: the seed is stored in full and the client whose project
\* insert was served resolves
C36_OneSeederResolves ==
    (RemoteActive /\ SeedersDone) =>
        /\ \E c \in Clients : clients[c].pc = "resolved"
        /\ SeedStored

\* C37: while the App is mounted it holds one live change subscription when
\* the remote mode is active and none when it is not
C37_OneSubscriptionWhenRemote ==
    app.mounted => Cardinality(LiveSubscriptions) = IF RemoteActive THEN 1 ELSE 0

\* C37, what holds: the live subscriptions of the mounted App are those its
\* effects opened at mount, two in remote mode and none in local mode,
\* whatever handleSaveSupabase does to the mode afterwards
C37_SubscriptionsFixedAtMount ==
    [][/\ (app.mounted /\ app'.mounted => LiveSubscriptions' = LiveSubscriptions)
       /\ (~app.mounted /\ app'.mounted =>
              Cardinality(LiveSubscriptions') = IF RemoteActive THEN 2 ELSE 0)]_vars

\* the backend in use holds a task `taskId` under the project `projectId`,
\* which is what the next getProjects reads
StoredUnder(projectId, taskId) ==
    IF RemoteActive
    THEN /\ \E p \in db.projects : p.id = projectId
         /\ \E t \in db.tasks : t.id = taskId /\ t.project_id = projectId
    ELSE LET P == readLocalData(localStorage.data).data.projects
             pi == FindIdx(P, projectId)
         IN  pi # 0 /\ \E j \in 1..Len(P[pi].tasks) : P[pi].tasks[j].id = taskId

\* the last call is an addTask of part_002 that resolved
ResolvedAddTask == ver = "p002" /\ ret.op = "addTask" /\ ret.status = "ok"

\* C38: an addTask of part_002 that resolved has stored the task it returned
\* under the project it was called for
C38_AddTaskPersisted ==
    ResolvedAddTask => StoredUnder(ret.projectId, ret.val.id)

\* C38, what holds: in remote mode, where the insert is refused for a
\* project the backend does not hold
C38_RemoteAddTaskPersisted ==
    (ResolvedAddTask /\ ret.remote) => StoredUnder(ret.projectId, ret.val.id)

\* the last call is a deleteTask of apiService.ts that resolved
ResolvedDeleteTask == ver = "api" /\ ret.op = "deleteTask" /\ ret.status = "ok"

\* C39: deleteTask(projectId, taskId) resolves with an object whose id is
\* taskId, in both modes
C39_DeleteTaskResolvesTaskId ==
    ResolvedDeleteTask => ret.val.id = ret.taskId

\* C39, what holds: the id of the resolved object is the first argument,
\* projectId, in both modes
C39_DeleteTaskResolvesProjectId ==
    ResolvedDeleteTask => ret.val.id = ret.projectId
====
